---------------------------- MODULE Spec2Model ----------------------------
(***************************************************************************)
(* A model of cilly's CliCommand: registration of arguments, options and   *)
(* sub-commands with option inheritance, the recursive parser, and the     *)
(* process pipeline (hooks, validators, handler).                          *)
(*                                                                         *)
(* Strings are sequences of one-character strings, so that the lexical     *)
(* predicates and the name conversions compute on characters as the code   *)
(* does.  JavaScript values are tagged records [t |-> tag, v |-> payload]. *)
(***************************************************************************)
EXTENDS Integers, Sequences, FiniteSets, TLC

\* ------------------------------------------------------------------------
\* Characters and strings
\* ------------------------------------------------------------------------

LowerChars == <<"a","b","c","d","e","f","g","h","i","j","k","l","m",
                "n","o","p","q","r","s","t","u","v","w","x","y","z">>

UpperChars == <<"A","B","C","D","E","F","G","H","I","J","K","L","M",
                "N","O","P","Q","R","S","T","U","V","W","X","Y","Z">>

DigitChars == <<"0","1","2","3","4","5","6","7","8","9">>

Range(s) == {s[i] : i \in DOMAIN s}

\* The regular expression class \w
WordChars == Range(LowerChars) \cup Range(UpperChars) \cup Range(DigitChars) \cup {"_"}

WordChar(c) == c \in WordChars

\* String.prototype.toUpperCase on one character
ToUpperChar(c) ==
  IF c \in Range(LowerChars)
  THEN UpperChars[CHOOSE i \in DOMAIN LowerChars : LowerChars[i] = c]
  ELSE c

\* s.slice(from) with 0-based from, here 1-based: the suffix starting at i
Drop(s, i) == IF i > Len(s) THEN <<>> ELSE SubSeq(s, i, Len(s))

StartsWithAt(s, i, pat) ==
  /\ i + Len(pat) - 1 <= Len(s)
  /\ \A k \in 1..Len(pat) : s[i + k - 1] = pat[k]

\* The least index at which pat occurs in s, 0 when it does not occur
IndexOf(s, pat) ==
  LET Least(hits) == IF hits = {} THEN 0 ELSE CHOOSE i \in hits : \A j \in hits : i <= j
  IN Least({i \in 1..(Len(s) + 1) : StartsWithAt(s, i, pat)})

\* s.replace(pat, ''): the first occurrence of pat removed
RemoveFirst(s, pat) ==
  LET Without(i) == IF i = 0 THEN s ELSE SubSeq(s, 1, i - 1) \o Drop(s, i + Len(pat))
  IN Without(IndexOf(s, pat))

\* s.split(ch) for a one-character separator
RECURSIVE Split(_, _)
Split(s, ch) ==
  LET SplitAt(i) == IF i = 0 THEN <<s>>
                    ELSE <<SubSeq(s, 1, i - 1)>> \o Split(Drop(s, i + 1), ch)
  IN SplitAt(IndexOf(s, <<ch>>))

\* words.join('')
RECURSIVE Join(_)
Join(words) == IF words = <<>> THEN <<>> ELSE Head(words) \o Join(Tail(words))

\* ------------------------------------------------------------------------
\* TokenParser (src/src/tokens/token-parser.ts)
\* ------------------------------------------------------------------------

\* ((\w\-\w)|\w|)* anchored at the end of s, matching from index i on
RECURSIVE MatchNameRest(_, _)
MatchNameRest(s, i) ==
  \/ i > Len(s)
  \/ /\ i + 2 <= Len(s)
     /\ WordChar(s[i]) /\ s[i + 1] = "-" /\ WordChar(s[i + 2])
     /\ MatchNameRest(s, i + 3)
  \/ /\ i <= Len(s)
     /\ WordChar(s[i])
     /\ MatchNameRest(s, i + 1)

\* OPTION_NAME_SYNTAX = /(\w((\w\-\w)|\w|)*)/ matched from index i to the end
MatchNameFrom(s, i) ==
  /\ i <= Len(s)
  /\ WordChar(s[i])
  /\ MatchNameRest(s, i + 1)

isValidName(name) == MatchNameFrom(name, 1)

isShortOptionName(name) ==
  /\ Len(name) >= 1
  /\ name[1] = "-"
  /\ MatchNameFrom(name, 2)

isLongOptionName(name) ==
  /\ Len(name) >= 2
  /\ name[1] = "-" /\ name[2] = "-"
  /\ MatchNameFrom(name, 3)

isOptionName(name) == isShortOptionName(name) \/ isLongOptionName(name)

isVariadicTerminator(token) == token = <<"-", "-">>

isOptionAssignment(token) ==
  /\ "=" \in Range(token)
  /\ isOptionName(Split(token, "=")[1])

capitalize(name) ==
  IF name = <<>> THEN <<>> ELSE <<ToUpperChar(name[1])>> \o Tail(name)

RECURSIVE MapCapitalize(_)
MapCapitalize(words) ==
  IF words = <<>> THEN <<>>
  ELSE <<capitalize(Head(words))>> \o MapCapitalize(Tail(words))

\* words.slice(0, 1) + words.slice(1).map(capitalize).join(''): the first
\* word is taken as it is, the array of at most one word coerced to a string
toCamelCase(words) ==
  IF words = <<>> THEN <<>>
  ELSE Head(words) \o Join(MapCapitalize(Tail(words)))

getNegatedFlag(longFlag) == <<"-", "-", "n", "o", "-">> \o RemoveFirst(longFlag, <<"-", "-">>)


\* ------------------------------------------------------------------------
\* JavaScript values and objects
\* ------------------------------------------------------------------------

Undefined == [t |-> "undefined", v |-> <<>>]
Bool(b) == [t |-> "boolean", v |-> b]
Str(s) == [t |-> "string", v |-> s]
List(l) == [t |-> "array", v |-> l]
Obj(m) == [t |-> "object", v |-> m]
Num(k) == [t |-> "number", v |-> k]

\* An object with string keys is the sequence of its entries [k, v] in
\* insertion order, the order Object.keys / values / entries enumerate.
Has(m, k) == \E i \in DOMAIN m : m[i].k = k

Get(m, k) == m[CHOOSE i \in DOMAIN m : m[i].k = k].v

Put(m, k, v) ==
  IF Has(m, k)
  THEN [i \in DOMAIN m |-> IF m[i].k = k THEN [k |-> k, v |-> v] ELSE m[i]]
  ELSE Append(m, [k |-> k, v |-> v])

Keys(m) == [i \in DOMAIN m |-> m[i].k]

Values(m) == [i \in DOMAIN m |-> m[i].v]

\* undefined used as a property key is the key "undefined"
UndefinedKey == <<"u", "n", "d", "e", "f", "i", "n", "e", "d">>

\* obj[k] used as a property key afterwards
GetKey(m, k) == IF Has(m, k) THEN Get(m, k) ELSE UndefinedKey

\* ------------------------------------------------------------------------
\* Definitions: Argument and Option (src/unnamed/part_007, lines 14-35)
\* ------------------------------------------------------------------------

NoHook == [t |-> "none", n |-> "-"]

\* The onParse hook the constructor gives the --help option of node n
HelpHook(n) == [t |-> "help", n |-> n]

\* The onParse hook withVersion gives the --version option of node n
VersionHook(n) == [t |-> "version", n |-> n]

\* A user's onParse hook that only records its call
SpyHook == [t |-> "spy", n |-> "-"]

Argument(name, required, variadic, defaultValue, onParse, onProcess, validator) ==
  [kind |-> "arg", name |-> name, required |-> required, variadic |-> variadic,
   defaultValue |-> defaultValue, onParse |-> onParse, onProcess |-> onProcess,
   validator |-> validator]

\* hasArgs is FALSE when the option has no args property
Option(name, required, negatable, hasArgs, args, defaultValue, onParse, onProcess, validator) ==
  [kind |-> "opt", name |-> name, required |-> required, negatable |-> negatable,
   hasArgs |-> hasArgs, args |-> args, defaultValue |-> defaultValue,
   onParse |-> onParse, onProcess |-> onProcess, validator |-> validator]

\* onProcess hooks of the model's users: none, one that only returns, and
\* one that awaits assign(v)
NoOnProcess == [t |-> "none", v |-> Undefined]
NoopOnProcess == [t |-> "noop", v |-> Undefined]
AssignOnProcess(v) == [t |-> "assign", v |-> v]

\* { name: [short, long] } with nothing else
Flag(short, long) ==
  Option(<<short, long>>, FALSE, FALSE, FALSE, <<>>, Undefined, NoHook, NoOnProcess, "none")

\* { name } with nothing else
Arg(name) == Argument(name, FALSE, FALSE, Undefined, NoHook, NoOnProcess, "none")

\* ------------------------------------------------------------------------
\* CliCommand: the fields of one command (src/unnamed/part_007, lines 76-104)
\* ------------------------------------------------------------------------

NoInherit == [on |-> FALSE, hasExcept |-> FALSE, except |-> <<>>]
InheritAll == [on |-> TRUE, hasExcept |-> FALSE, except |-> <<>>]
InheritExcept(list) == [on |-> TRUE, hasExcept |-> TRUE, except |-> list]

\* The constructor's opts parameter when the caller passes none
DefaultCliCommandOptions ==
  [inheritOpts |-> NoInherit, consumeUnknownArgs |-> Bool(TRUE),
   consumeUnknownOpts |-> Bool(FALSE)]

EmptyParsed == [args |-> <<>>, opts |-> <<>>, extra |-> <<>>]

NewFields(name, o) ==
  [name |-> name,
   hasVersion |-> FALSE,
   handler |-> FALSE,
   inheritOpts |-> o.inheritOpts,
   consumeUnknownArgs |-> o.consumeUnknownArgs,
   consumeUnknownOpts |-> o.consumeUnknownOpts,
   args |-> <<>>,
   opts |-> <<>>,
   subCommands |-> <<>>,
   shortNameMap |-> <<>>,
   argsMap |-> <<>>,
   negatableOptsMap |-> <<>>,
   onProcessQueue |-> <<>>,
   parsed |-> EmptyParsed]

\* ------------------------------------------------------------------------
\* Names (src/unnamed/part_007, lines 627-658)
\* ------------------------------------------------------------------------

getShortName(opt) == toCamelCase(Split(RemoveFirst(opt.name[1], <<"-">>), "-"))

\* getName of an option or argument definition
getDefName(d) ==
  toCamelCase(Split(IF d.kind = "opt" THEN RemoveFirst(d.name[2], <<"-", "-">>) ELSE d.name,
                    "-"))

\* getName of a flag string, on the command with fields c
getFlagName(c, flag) ==
  LET Camel(long) ==
        toCamelCase(Split(RemoveFirst(flag, IF long THEN <<"-", "-">> ELSE <<"-">>), "-"))
      Named(long, camel) == IF long THEN camel ELSE GetKey(c.shortNameMap, camel)
      Flagged(long) == Named(long, Camel(long))
  IN Flagged(isLongOptionName(flag))

\* ------------------------------------------------------------------------
\* Registration (src/unnamed/part_007, lines 142-217 and 590-625)
\* ------------------------------------------------------------------------

isEmpty(obj) == Len(obj) = 0

\* checkArgument: the exception it throws, "none" when it returns
checkArgument(c, arg, isOptionArg) ==
  IF ~isOptionArg /\ ~isEmpty(c.subCommands) THEN "NoArgsAndSubCommands"
  ELSE IF ~isValidName(arg.name) THEN "InvalidArgumentName"
  ELSE "none"

RECURSIVE checkOptionArgs(_, _)
checkOptionArgs(c, args) ==
  LET Checked(e) == IF e # "none" THEN e ELSE checkOptionArgs(c, Tail(args))
  IN IF args = <<>> THEN "none" ELSE Checked(checkArgument(c, Head(args), TRUE))

checkOption(c, option) ==
  IF Len(option.name) # 2 THEN "InvalidNumOptionNames"
  ELSE IF ~isShortOptionName(option.name[1]) THEN "InvalidShortOptionName"
  ELSE IF ~isLongOptionName(option.name[2]) THEN "InvalidLongOptionName"
  ELSE checkOptionArgs(c, option.args)

checkSubCommand(c, childName) ==
  IF ~isEmpty(c.args) THEN "NoArgsAndSubCommands"
  ELSE IF Has(c.subCommands, childName) THEN "DuplicateCommandName"
  ELSE "none"

\* An inheritance that has no exception for --help
inheritHelpToo(c, option) ==
  IF ~c.inheritOpts.hasExcept THEN TRUE
  ELSE ~(option.name[2] \in Range(c.inheritOpts.except))

shouldInheritOption(c, option) ==
  IF option.name[2] = <<"-", "-", "h", "e", "l", "p">> THEN FALSE
  ELSE IF ~c.inheritOpts.hasExcept THEN TRUE
  ELSE ~(option.name[2] \in Range(c.inheritOpts.except))

\* The options of a list that inheritOptions passes on to withOptions
\* An inheritance that filters nothing
inheritEverything(c, options) == options

RECURSIVE optionsToInherit(_, _)
optionsToInherit(c, options) ==
  IF options = <<>> THEN <<>>
  ELSE (IF shouldInheritOption(c, Head(options)) THEN <<Head(options)>> ELSE <<>>)
       \o optionsToInherit(c, Tail(options))

\* A registration that enters no --no- flag into negatableOptsMap
storeWithoutNegation(c, option) ==
  [c EXCEPT !.opts = Put(@, getDefName(option), option),
            !.shortNameMap = Put(@, getShortName(option), getDefName(option)),
            !.onProcessQueue = Append(@, option)]

\* The body of withOptions' loop up to the propagation: one option stored
storeOption(c, option) ==
  LET Stored(name, short) ==
        [c EXCEPT
           !.negatableOptsMap =
              IF option.negatable THEN Put(@, getNegatedFlag(option.name[2]), option) ELSE @,
           !.opts = Put(@, name, option),
           !.shortNameMap = Put(@, short, name),
           !.onProcessQueue = Append(@, option)]
  IN Stored(getDefName(option), getShortName(option))

\* withOptions(...options) on node n, and within it the propagation to the
\* sub-commands that inherit: each receives all the options of n again.
\* The result is the commands afterwards and the exception thrown, if any.
RECURSIVE withOptions(_, _, _)
RECURSIVE propagateOptions(_, _, _)

\* A withOptions that hands nothing on to the sub-commands
propagateNothing(cs, n, subs) == [cs |-> cs, err |-> "none"]

propagateOptions(cs, n, subs) ==
  LET Inherited(r) == IF r.err # "none" THEN r ELSE propagateOptions(r.cs, n, Tail(subs))
  IN IF subs = <<>> THEN [cs |-> cs, err |-> "none"]
     ELSE Inherited(IF cs[Head(subs)].inheritOpts.on
                    THEN withOptions(cs, Head(subs),
                                     optionsToInherit(cs[Head(subs)], Values(cs[n].opts)))
                    ELSE [cs |-> cs, err |-> "none"])

withOptions(cs, n, options) ==
  LET Propagated(r) == IF r.err # "none" THEN r ELSE withOptions(r.cs, n, Tail(options))
      Stored(stored) == Propagated(propagateOptions(stored, n, Values(stored[n].subCommands)))
      Checked(e) == IF e # "none" THEN [cs |-> cs, err |-> e]
                    ELSE Stored([cs EXCEPT ![n] = storeOption(@, Head(options))])
  IN IF options = <<>> THEN [cs |-> cs, err |-> "none"]
     ELSE Checked(checkOption(cs[n], Head(options)))

inheritOptions(cs, n, options) == withOptions(cs, n, optionsToInherit(cs[n], options))

RECURSIVE withArguments(_, _, _)
withArguments(cs, n, args) ==
  LET Checked(arg, e) ==
        IF e # "none" THEN [cs |-> cs, err |-> e]
        ELSE IF \E i \in DOMAIN cs[n].args : cs[n].args[i].name = arg.name
        THEN [cs |-> cs, err |-> "DuplicateArgument"]
        ELSE withArguments(
               [cs EXCEPT ![n] = [@ EXCEPT !.args = Append(@, arg),
                                           !.argsMap = Put(@, getDefName(arg), arg),
                                           !.onProcessQueue = Append(@, arg)]],
               n, Tail(args))
  IN IF args = <<>> THEN [cs |-> cs, err |-> "none"]
     ELSE Checked(Head(args), checkArgument(cs[n], Head(args), FALSE))

RECURSIVE withSubCommands(_, _, _)
withSubCommands(cs, n, commands) ==
  LET Inherited(command, r) ==
        IF r.err # "none" THEN r
        ELSE withSubCommands(
               [r.cs EXCEPT ![n] = [@ EXCEPT !.subCommands =
                                        Put(@, r.cs[command].name, command)]],
               n, Tail(commands))
      Checked(command, e) ==
        IF e # "none" THEN [cs |-> cs, err |-> e]
        ELSE Inherited(command,
                       IF cs[command].inheritOpts.on
                       THEN inheritOptions(cs, command, Values(cs[n].opts))
                       ELSE [cs |-> cs, err |-> "none"])
  IN IF commands = <<>> THEN [cs |-> cs, err |-> "none"]
     ELSE Checked(Head(commands), checkSubCommand(cs[n], cs[Head(commands)].name))

withHandler(cs, n) == [cs EXCEPT ![n] = [@ EXCEPT !.handler = TRUE]]

HelpFlags == <<<<"-", "h">>, <<"-", "-", "h", "e", "l", "p">>>>
VersionFlags == <<<<"-", "v">>, <<"-", "-", "v", "e", "r", "s", "i", "o", "n">>>>

HelpOption(n) ==
  Option(HelpFlags, FALSE, FALSE, FALSE, <<>>, Undefined, HelpHook(n), NoOnProcess, "none")

VersionOption(n) ==
  Option(VersionFlags, FALSE, FALSE, FALSE, <<>>, Undefined, VersionHook(n), NoOnProcess, "none")

withVersion(cs, n) ==
  withOptions([cs EXCEPT ![n] = [@ EXCEPT !.hasVersion = TRUE]], n, <<VersionOption(n)>>)

checkInheritOpts(inheritOpts) ==
  IF inheritOpts.hasExcept /\ \E i \in DOMAIN inheritOpts.except :
                                 ~isLongOptionName(inheritOpts.except[i])
  THEN "InvalidLongOptionName"
  ELSE "none"

\* new CliCommand(name, o): the fields of the new command n, given that the
\* constructor does not throw (ConstructorError is "none")
ConstructorError(name, o) ==
  IF ~isValidName(name) THEN "InvalidCommandName" ELSE checkInheritOpts(o.inheritOpts)

NewCliCommand(n, name, o) == storeOption(NewFields(name, o), HelpOption(n))

\* ------------------------------------------------------------------------
\* The parser (src/unnamed/part_007, lines 293-335 and 441-588)
\*
\* What a call did is kept as a log of events: a hook called, a definition
\* bound from the token stream (with the number of tokens it removed from
\* the queue), a token put into extra.
\* ------------------------------------------------------------------------

Event(e, n, kind, name, value, taken) ==
  [e |-> e, n |-> n, kind |-> kind, name |-> name, value |-> value, taken |-> taken,
   hook |-> NoHook, res |-> "-"]

\* A string in a condition: '' is falsy
Truthy(token) == token # <<>>

\* [option, value] = arg.split('='): the second piece, undefined pieces aside
RECURSIVE splitOptionAssignments(_)
splitOptionAssignments(processArgs) ==
  IF processArgs = <<>> THEN <<>>
  ELSE LET arg == Head(processArgs)
           pieces == Split(arg, "=")
       IN (IF isOptionAssignment(arg) THEN <<pieces[1], pieces[2]>> ELSE <<arg>>)
          \o splitOptionAssignments(Tail(processArgs))

\* A capture that takes the terminator as one more value
RECURSIVE captureTerminator(_, _)
captureTerminator(q, args) ==
  IF q # <<>> /\ Truthy(q[1]) /\ ~isOptionName(q[1])
  THEN captureTerminator(Tail(q), Append(args, q[1]))
  ELSE [q |-> q, value |-> List(args)]

\* consumeVariadicArguments: the queue left and the values taken
RECURSIVE consumeVariadicArguments(_, _)
consumeVariadicArguments(q, args) ==
  IF q # <<>> /\ Truthy(q[1]) /\ ~isOptionName(q[1])
  THEN IF isVariadicTerminator(q[1])
       THEN [q |-> Tail(q), value |-> List(args)]
       ELSE consumeVariadicArguments(Tail(q), Append(args, q[1]))
  ELSE [q |-> q, value |-> List(args)]

consumeSingleArgument(q) ==
  IF q # <<>> /\ Truthy(q[1]) /\ isOptionName(q[1])
  THEN [q |-> q, value |-> Undefined]
  ELSE IF q = <<>> THEN [q |-> q, value |-> Undefined]
  ELSE [q |-> Tail(q), value |-> Str(q[1])]

\* arg.defaultValue ?? undefined
DefaultOf(d) == d.defaultValue

\* consumeArgument(arg, q) on node n; role is "arg" for a positional
\* argument and "nested" for an argument of an option (the log's only).
consumeArgument(n, arg, q, role, log) ==
  LET Consumed(taken, name) ==
        LET missing == taken.value = Undefined
            argValue == IF ~missing THEN taken.value
                        ELSE IF arg.variadic THEN List(<<>>)
                        ELSE DefaultOf(arg)
            count == Len(q) - Len(taken.q)
            bound == Append(log, Event("bind", n, role, name, argValue, count))
        IN IF missing /\ ~arg.variadic /\ arg.required
           THEN [q |-> taken.q, name |-> name, value |-> Undefined, err |-> "ExpectedButGot",
                 log |-> Append(log, Event("missing", n, role, name, Undefined, count))]
           ELSE [q |-> taken.q, name |-> name, value |-> argValue, err |-> "none",
                 log |-> IF arg.onParse.t # "none"
                         THEN Append(bound, [Event("onParse", n, role, name, argValue, 0)
                                               EXCEPT !.hook = arg.onParse])
                         ELSE bound]
  IN Consumed(IF q # <<>> /\ Truthy(q[1])
              THEN IF arg.variadic
                   THEN consumeVariadicArguments(q, <<>>)
                   ELSE consumeSingleArgument(q)
              ELSE [q |-> q, value |-> Undefined],
              getDefName(arg))

\* The loop of consumeOption over the option's args
RECURSIVE consumeOptionArguments(_, _, _, _, _)
consumeOptionArguments(n, args, q, optValue, log) ==
  LET Consumed(r) ==
        IF r.err # "none"
        THEN [q |-> r.q, value |-> optValue, err |-> r.err, log |-> r.log]
        ELSE consumeOptionArguments(n, Tail(args), r.q, Put(optValue, r.name, r.value), r.log)
  IN IF args = <<>> THEN [q |-> q, value |-> optValue, err |-> "none", log |-> log]
     ELSE Consumed(consumeArgument(n, Head(args), q, "nested", log))

\* An option value that is never folded into its only entry
keepMapping(optValue) == Obj(optValue)

\* myOption = { arg: 1 } becomes myOption = 1
collapse(optValue) == IF Len(optValue) = 1 THEN optValue[1].v ELSE Obj(optValue)

\* consumeOption(q) on node n with fields c.  bound tells whether a
\* [name, value] pair is returned; toExtra whether the flag went into extra.
consumeOption(c, n, q, log) ==
  LET next == Head(q)
      rest == Tail(q)
      Collapsed(a) == [q |-> a.q, value |-> collapse(a.value), err |-> a.err, log |-> a.log]
      Negated(nothing, negated) ==
        [nothing EXCEPT !.bound = TRUE, !.name = negated, !.value = Bool(FALSE),
                        !.log = Append(log, Event("bind", n, "negated", negated, Bool(FALSE), 1))]
      Valued(nothing, name, opt, r) ==
        LET bound == Append(r.log, Event("bind", n, "opt", name, r.value, Len(q) - Len(r.q)))
        IN IF r.err # "none"
           THEN [nothing EXCEPT !.q = r.q, !.err = r.err, !.log = r.log]
           ELSE [q |-> r.q, bound |-> TRUE, toExtra |-> FALSE, name |-> name,
                 value |-> r.value, err |-> "none",
                 log |-> IF opt.onParse.t # "none"
                         THEN Append(bound, [Event("onParse", n, "opt", name, r.value, 0)
                                               EXCEPT !.hook = opt.onParse])
                         ELSE bound]
      Named(name, nothing) ==
        IF ~Has(c.opts, name)
        THEN IF Has(c.negatableOptsMap, next)
             THEN Negated(nothing, getDefName(Get(c.negatableOptsMap, next)))
             ELSE IF c.consumeUnknownOpts = Bool(TRUE)
             THEN [nothing EXCEPT !.toExtra = TRUE,
                                  !.log = Append(log, Event("extra", n, "opt", next, Str(next), 1))]
             ELSE [nothing EXCEPT !.err = "UnknownOption"]
        ELSE IF Has(c.parsed.opts, name)
        THEN [nothing EXCEPT !.err = "DuplicateOption"]
        ELSE IF ~Get(c.opts, name).hasArgs
        THEN Valued(nothing, name, Get(c.opts, name),
                    [q |-> rest, value |-> Bool(TRUE), err |-> "none", log |-> log])
        ELSE Valued(nothing, name, Get(c.opts, name),
                    Collapsed(consumeOptionArguments(n, Get(c.opts, name).args, rest, <<>>, log)))
      Flagged(name) ==
        Named(name, [q |-> rest, bound |-> FALSE, toExtra |-> FALSE, name |-> name,
                     value |-> Undefined, err |-> "none", log |-> log])
  IN Flagged(getFlagName(c, next))

\* A finalization that leaves the options without a value as they are
leaveUnassignedOptions(c, i) == [c |-> c, err |-> "none"]

\* handleUnassignedOptions over the entries of opts from index i on
RECURSIVE handleUnassignedOptions(_, _)
handleUnassignedOptions(c, i) ==
  IF i > Len(c.opts) THEN [c |-> c, err |-> "none"]
  ELSE LET name == c.opts[i].k
           opt == c.opts[i].v
       IN IF Has(c.parsed.opts, name) THEN handleUnassignedOptions(c, i + 1)
          ELSE IF opt.required THEN [c |-> c, err |-> "ExpectedButGot"]
          ELSE handleUnassignedOptions(
                 [c EXCEPT !.parsed.opts = Put(@, name, opt.defaultValue)], i + 1)

\* A finalization that binds the variadic arguments left to the empty list
RECURSIVE assignEmptyLists(_, _)
assignEmptyLists(c, i) ==
  IF i > Len(c.args) THEN c
  ELSE assignEmptyLists(
         [c EXCEPT !.parsed.args =
            Put(@, getDefName(c.args[i]),
                IF c.args[i].variadic THEN List(<<>>) ELSE c.args[i].defaultValue)],
         i + 1)

RECURSIVE assignArgumentDefaults(_, _)
assignArgumentDefaults(c, i) ==
  IF i > Len(c.args) THEN c
  ELSE assignArgumentDefaults(
         [c EXCEPT !.parsed.args = Put(@, getDefName(c.args[i]), c.args[i].defaultValue)],
         i + 1)

\* A finalization that takes no notice of required
assignWithoutCheck(c) == [c |-> assignArgumentDefaults(c, 1), err |-> "none"]

handleUnassignedArguments(c) ==
  IF \E i \in DOMAIN c.args : c.args[i].required
  THEN [c |-> c, err |-> "ExpectedButGot"]
  ELSE [c |-> assignArgumentDefaults(c, 1), err |-> "none"]

\* What parse leaves behind: the commands, the node on which it returned
\* or threw, the exception thrown ("none": it returned that node's parsed),
\* and the log.
ParseEnd(cs, n, err, log) == [cs |-> cs, node |-> n, err |-> err, log |-> log]

\* A loop that leaves the command's own name at the head of the queue
keepName(q) == q

\* if (next === this.name) { q.shift(); continue }: the queue afterwards
shiftName(q) == Tail(q)

\* One iteration of parse's while loop on node n with the queue q, or, with
\* the queue empty, the two handleUnassigned calls and the return: the
\* commands, the node, the queue and the log afterwards, the exception
\* thrown, and whether parse has returned or thrown.  A token naming a
\* sub-command hands the queue to that command's parse, which splits the
\* assignments again.
parseIteration(cs, n, q, log) ==
  LET c == cs[n]
      Continue(cs2, m, q2, log2) ==
        [cs |-> cs2, node |-> m, q |-> q2, log |-> log2, err |-> "none", done |-> FALSE]
      Ended(cs2, err, log2) ==
        [cs |-> cs2, node |-> n, q |-> q, log |-> log2, err |-> err, done |-> TRUE]
      Arguments(a) == Ended([cs EXCEPT ![n] = a.c], a.err, log)
      Options(o) ==
        IF o.err # "none" THEN Ended([cs EXCEPT ![n] = o.c], o.err, log)
        ELSE Arguments(handleUnassignedArguments(o.c))
      OptionConsumed(r) ==
        IF r.err # "none" THEN Ended(cs, r.err, r.log)
        ELSE IF r.toExtra
        THEN Continue([cs EXCEPT ![n].parsed.extra = Append(@, q[1])], n, r.q, r.log)
        ELSE IF ~r.bound THEN Continue(cs, n, r.q, r.log)
        ELSE Continue([cs EXCEPT ![n].parsed.opts = Put(@, r.name, r.value)],
                      n, r.q, r.log)
      ArgumentConsumed(shifted, r) ==
        IF r.err # "none" THEN Ended(shifted, r.err, r.log)
        ELSE Continue([shifted EXCEPT ![n].parsed.args = Put(@, r.name, r.value)],
                      n, r.q, r.log)
  IN
  IF q = <<>> THEN Options(handleUnassignedOptions(c, 1))
  ELSE IF q[1] = c.name THEN Continue(cs, n, shiftName(q), log)
  ELSE IF Has(c.subCommands, q[1])
  THEN Continue(cs, Get(c.subCommands, q[1]), splitOptionAssignments(q), log)
  ELSE IF isOptionName(q[1]) THEN OptionConsumed(consumeOption(c, n, q, log))
  ELSE IF ~isEmpty(c.args)
  THEN ArgumentConsumed([cs EXCEPT ![n].args = Tail(@)],
                        consumeArgument(n, Head(c.args), q, "arg", log))
  ELSE IF ~isEmpty(c.subCommands)
  THEN Ended(cs, "UnknownSubcommand", log)
  ELSE IF c.consumeUnknownArgs = Bool(TRUE)
  THEN Continue([cs EXCEPT ![n].parsed.extra = Append(@, q[1])], n, Tail(q),
                Append(log, Event("extra", n, "arg", q[1], Str(q[1]), 1)))
  ELSE Ended(cs, "UnexpectedArgument", log)

\* parse's while loop on node n with the queue q, up to the return or the
\* exception
RECURSIVE parseLoop(_, _, _, _)
parseLoop(cs, n, q, log) ==
  LET Iterated(s) == IF s.done THEN ParseEnd(s.cs, s.node, s.err, s.log)
                     ELSE parseLoop(s.cs, s.node, s.q, s.log)
  IN Iterated(parseIteration(cs, n, q, log))

\* parse(processArgs, { raw }) on node n
parse(cs, n, processArgs, raw) ==
  parseLoop(cs, n,
            splitOptionAssignments(IF raw THEN processArgs ELSE Drop(processArgs, 3)),
            <<>>)

\* ------------------------------------------------------------------------
\* dump() (src/unnamed/part_007, lines 271-283 and 358-378)
\* ------------------------------------------------------------------------

dumpArgument(a) ==
  Obj(<<[k |-> "name", v |-> Str(a.name)],
        [k |-> "required", v |-> Bool(a.required)],
        [k |-> "defaultValue", v |-> a.defaultValue],
        [k |-> "variadic", v |-> Bool(a.variadic)]>>)

dumpOption(o) ==
  Obj(<<[k |-> "name", v |-> List(o.name)],
        [k |-> "required", v |-> Bool(o.required)],
        [k |-> "negatable", v |-> Bool(o.negatable)],
        [k |-> "args", v |-> List([i \in DOMAIN o.args |-> dumpArgument(o.args[i])])],
        [k |-> "defaultValue", v |-> o.defaultValue]>>)

\* The depth of calls at which the engine ends a recursion with a RangeError
StackLimit == 8

RangeError == [t |-> "RangeError", v |-> <<>>]

\* The dump of command n with fields, options, arguments and the dumps subs
\* of its sub-commands; the RangeError of a sub-command's dump is its own
Dumped(c, subs) ==
  IF \E i \in DOMAIN subs : subs[i] = RangeError THEN RangeError
  ELSE Obj(<<[k |-> "name", v |-> Str(c.name)],
             [k |-> "opts", v |-> List([i \in DOMAIN c.opts |-> dumpOption(c.opts[i].v)])],
             [k |-> "args", v |-> List([i \in DOMAIN c.argsMap |-> dumpArgument(c.argsMap[i].v)])],
             [k |-> "subCommands", v |-> List(subs)]>>)

\* A dump that descends into the sub-commands of every command
RECURSIVE dumpEverywhere(_, _, _)
dumpEverywhere(cs, n, dumped) ==
  IF Len(dumped) >= StackLimit THEN RangeError
  ELSE Dumped(cs[n], [i \in DOMAIN cs[n].subCommands |->
                        dumpEverywhere(cs, cs[n].subCommands[i].v, Append(dumped, n))])

\* dump(dumped) on command n: dumped holds the commands whose dump is under
\* way, outermost first
RECURSIVE dump(_, _, _)
dump(cs, n, dumped) ==
  IF Len(dumped) >= StackLimit THEN RangeError
  ELSE Dumped(cs[n], IF n \in Range(dumped) THEN <<>>
                     ELSE [i \in DOMAIN cs[n].subCommands |->
                             dump(cs, cs[n].subCommands[i].v, Append(dumped, n))])

\* ------------------------------------------------------------------------
\* The process pipeline (src/unnamed/part_007, lines 337-439)
\* ------------------------------------------------------------------------

\* checkForMissingCommandHandlers on node n.  path holds the commands whose
\* call is on the stack: a command met again there is checked again in the
\* same way without end, which the engine ends with a RangeError.
RECURSIVE checkForMissingCommandHandlers(_, _, _)
RECURSIVE checkSubCommandHandlers(_, _, _)

checkSubCommandHandlers(cs, subs, path) ==
  IF subs = <<>> THEN "none"
  ELSE LET e == checkForMissingCommandHandlers(cs, Head(subs), path)
       IN IF e # "none" THEN e ELSE checkSubCommandHandlers(cs, Tail(subs), path)

checkForMissingCommandHandlers(cs, n, path) ==
  IF ~cs[n].handler THEN "NoCommandHandler"
  ELSE IF n \in path THEN "RangeError"
  ELSE checkSubCommandHandlers(cs, Values(cs[n].subCommands), path \cup {n})

RECURSIVE getCommand(_, _, _)
getCommand(cs, n, processArgs) ==
  LET args == IF processArgs # <<>> /\ processArgs[1] = cs[n].name
              THEN Tail(processArgs) ELSE processArgs
      key == IF args = <<>> THEN UndefinedKey ELSE args[1]
  IN IF Has(cs[n].subCommands, key)
     THEN getCommand(cs, Get(cs[n].subCommands, key), Drop(args, 2))
     ELSE n

\* What the model's validators return for a value: true, false or a string
ValidatorResult(validator, value) ==
  CASE validator = "accept" -> "true"
    [] validator = "reject" -> "false"
    [] validator = "reason" -> "a reason"
    [] validator = "rejectNumbers" -> IF value.t = "number" THEN "false" ELSE "true"
    [] validator = "onlyNumbers" -> IF value.t = "number" THEN "true" ELSE "a reason"

\* validate(value, parsed, optOrArg): the exception thrown
validate(value, optOrArg) ==
  IF optOrArg.validator = "none" THEN "none"
  ELSE IF ValidatorResult(optOrArg.validator, value) # "true" THEN "ValidationError"
  ELSE "none"

\* parsed[type][name]
TypeOf(definition) == IF definition.kind = "arg" THEN "args" ELSE "opts"

Bound(parsed, type, name) ==
  IF Has(parsed[type], name) THEN Get(parsed[type], name) ELSE Undefined

\* The awaited calls of process() after parse, in order: the onProcess
\* hooks of the queue, the validators of argsMap, the validators of opts,
\* the handler.  A position is a phase and an index into that phase's list.
PhaseList(c, phase) ==
  CASE phase = "hooks" -> c.onProcessQueue
    [] phase = "args" -> Values(c.argsMap)
    [] phase = "opts" -> Values(c.opts)
    [] OTHER -> <<>>

Awaited(definition, phase) ==
  IF phase = "hooks" THEN definition.onProcess.t # "none"
  ELSE definition.validator # "none"

\* A pipeline that runs the validators of the options before the arguments'
OptsBeforeArgs(phase) ==
  CASE phase = "hooks" -> "opts"
    [] phase = "opts" -> "args"
    [] phase = "args" -> "handler"

NextPhase(phase) ==
  CASE phase = "hooks" -> "args"
    [] phase = "args" -> "opts"
    [] phase = "opts" -> "handler"

\* The first position at or after (phase, i) at which something is awaited
RECURSIVE Advance(_, _, _)
Advance(c, phase, i) ==
  IF phase = "handler" THEN [pc |-> "handler", i |-> 1]
  ELSE IF i > Len(PhaseList(c, phase)) THEN Advance(c, NextPhase(phase), 1)
  ELSE IF Awaited(PhaseList(c, phase)[i], phase) THEN [pc |-> phase, i |-> i]
  ELSE Advance(c, phase, i + 1)

\* What the model's handlers return
HandlerResult(n) == [t |-> "result", v |-> n]

\* ------------------------------------------------------------------------
\* State
\* ------------------------------------------------------------------------

VARIABLES
  cmds,   \* the CliCommand objects: node -> fields
  call,   \* the last call made on a command and how it ended
  proc    \* the process() call in progress: its position and what it did

vars == <<cmds, call, proc>>

Nodes == {"n1", "n2", "n3"}

\* Strings of the model's commands, flags and tokens
Word ==
  [app |-> <<"a", "p", "p">>,
   sub |-> <<"s", "u", "b">>,
   leaf |-> <<"l", "e", "a", "f">>,
   t |-> <<"-", "t">>,
   test |-> <<"-", "-", "t", "e", "s", "t">>,
   q |-> <<"-", "q">>,
   quiet |-> <<"-", "-", "q", "u", "i", "e", "t">>,
   rc |-> <<"-", "r", "c">>,
   runConfig |-> <<"-", "-", "r", "u", "n", "-", "c", "o", "n", "f", "i", "g">>,
   path |-> <<"p", "a", "t", "h">>,
   x |-> <<"-", "x">>,
   bad |-> <<"-", "b", "a", "d">>,
   f |-> <<"-", "f">>,
   first |-> <<"-", "-", "f", "i", "r", "s", "t">>,
   second |-> <<"s", "e", "c", "o", "n", "d">>,
   th |-> <<"-", "t", "h">>,
   third |-> <<"-", "-", "t", "h", "i", "r", "d">>,
   fo |-> <<"-", "f", "o">>,
   fourth |-> <<"-", "-", "f", "o", "u", "r", "t", "h">>,
   value |-> <<"v", "a", "l", "u", "e">>,
   hi |-> <<"h", "i">>,
   a |-> <<"a">>,
   b |-> <<"b">>,
   j |-> <<"j">>,
   term |-> <<"-", "-">>,
   empty |-> <<>>,
   pa |-> <<"-", "p", "=", "a">>,
   p |-> <<"-", "p">>,
   pair |-> <<"-", "-", "p", "a", "i", "r">>,
   left |-> <<"l", "e", "f", "t">>,
   right |-> <<"r", "i", "g", "h", "t">>,
   files |-> <<"f", "i", "l", "e", "s">>,
   dirs |-> <<"d", "i", "r", "s">>,
   file |-> <<"f", "i", "l", "e">>,
   r |-> <<"-", "r">>,
   residents |-> <<"-", "-", "r", "e", "s", "i", "d", "e", "n", "t", "s">>,
   owner |-> <<"o", "w", "n", "e", "r">>,
   adults |-> <<"a", "d", "u", "l", "t", "s">>,
   children |-> <<"c", "h", "i", "l", "d", "r", "e", "n">>,
   m |-> <<"-", "m">>,
   many |-> <<"-", "-", "m", "a", "n", "y">>,
   things |-> <<"t", "h", "i", "n", "g", "s">>,
   d |-> <<"-", "d">>,
   dir |-> <<"-", "-", "d", "i", "r">>,
   noQuiet |-> <<"-", "-", "n", "o", "-", "q", "u", "i", "e", "t">>,
   noTest |-> <<"-", "-", "n", "o", "-", "t", "e", "s", "t">>,
   rest |-> <<"r", "e", "s", "t">>,
   ab |-> <<"-", "a", "-", "b">>,
   myDashArg |-> <<"m", "y", "-", "a", "r", "g">>,
   myArg |-> <<"m", "y", "A", "r", "g">>]

NodeName(n) == CASE n = "n1" -> Word.app [] n = "n2" -> Word.sub [] n = "n3" -> Word.leaf

\* The constructor's opts parameter { inheritOpts } with nothing else: the
\* two consume flags are undefined, which every test of them takes as false
OnlyInheritOpts(inheritOpts) ==
  [inheritOpts |-> inheritOpts, consumeUnknownArgs |-> Undefined,
   consumeUnknownOpts |-> Undefined]

NoCall ==
  [op |-> "none", node |-> "n1", tokens |-> <<>>, err |-> "none", final |-> "n1",
   log |-> <<>>, count |-> 0, parses |-> 0]

IdleProc ==
  [pc |-> "idle", root |-> "n1", command |-> "n1", parsedNode |-> "n1", i |-> 1,
   err |-> "none", log |-> <<>>, received |-> EmptyParsed, result |-> Undefined]

\* A builder call on node n that ended with the exception err
Called(op, n, err) ==
  [NoCall EXCEPT !.op = op, !.node = n, !.err = err, !.final = n,
                 !.count = call.count + 1, !.parses = call.parses]

\* ------------------------------------------------------------------------
\* Spec: registration and inheritance
\* ------------------------------------------------------------------------

MaxCalls == 3

OptTest == Flag(Word.t, Word.test)

OptQuiet ==
  Option(<<Word.q, Word.quiet>>, FALSE, TRUE, FALSE, <<>>, Bool(TRUE), SpyHook, NoOnProcess, "none")

OptRunConfig ==
  Option(<<Word.rc, Word.runConfig>>, FALSE, FALSE, TRUE,
         <<Argument(Word.path, TRUE, FALSE, Undefined, NoHook, NoOnProcess, "none")>>,
         Undefined, NoHook, NoOnProcess, "none")

\* An option whose long flag checkOption rejects
OptBad == Flag(Word.x, Word.bad)

\* The argument lists of the withOptions calls
OptionLists == {<<OptTest>>, <<OptQuiet>>, <<OptRunConfig, OptBad>>}

\* The commands that can be reached from those of S over one or more
\* sub-command entries whose command inherits options
RECURSIVE InheritingReach(_, _, _)
InheritingReach(edges, S, seen) ==
  LET next == {e[2] : e \in {e \in edges : e[1] \in S}} \ seen
  IN IF next = {} THEN seen ELSE InheritingReach(edges, next, seen \cup next)

InheritEdges(cs) ==
  {<<a, b>> \in Nodes \X Nodes :
     cs[b].inheritOpts.on /\ \E i \in DOMAIN cs[a].subCommands : cs[a].subCommands[i].v = b}

\* withOptions calls itself through inheritOptions for as long as it finds
\* inheriting sub-commands: on a cycle of them it never returns.  The model
\* makes no call that closes such a cycle.
NoInheritingCycle(edges) == \A a \in Nodes : a \notin InheritingReach(edges, {a}, {})

InitCommands ==
  {[n \in Nodes |-> NewCliCommand(n, NodeName(n),
                      CASE n = "n1" -> DefaultCliCommandOptions
                        [] n = "n2" -> OnlyInheritOpts(i2)
                        [] n = "n3" -> OnlyInheritOpts(i3))] :
     i2 \in {InheritAll, InheritExcept(<<Word.quiet>>)}, i3 \in {InheritAll, NoInherit}}

Init ==
  /\ cmds \in InitCommands
  /\ call = NoCall
  /\ proc = IdleProc

WithOptions(n, options) ==
  /\ call.count < MaxCalls
  /\ LET r == withOptions(cmds, n, options)
     IN /\ cmds' = r.cs
        /\ call' = Called("withOptions", n, r.err)
  /\ UNCHANGED proc

WithVersion(n) ==
  /\ call.count < MaxCalls
  /\ LET r == withVersion(cmds, n)
     IN /\ cmds' = r.cs
        /\ call' = Called("withVersion", n, r.err)
  /\ UNCHANGED proc

WithSubCommands(n, commands) ==
  /\ call.count < MaxCalls
  /\ NoInheritingCycle(InheritEdges(cmds) \cup
       {<<n, commands[i]>> : i \in {j \in DOMAIN commands : cmds[commands[j]].inheritOpts.on}})
  /\ LET r == withSubCommands(cmds, n, commands)
     IN /\ cmds' = r.cs
        /\ call' = Called("withSubCommands", n, r.err)
  /\ UNCHANGED proc

\* dump() on command n; proc.result holds what it returned
Dump(n) ==
  /\ call.count < MaxCalls
  /\ call' = Called("dump", n, "none")
  /\ proc' = [proc EXCEPT !.result = dump(cmds, n, <<>>)]
  /\ UNCHANGED cmds

Next ==
  \/ \E n \in Nodes, options \in OptionLists : WithOptions(n, options)
  \/ \E n \in {"n1", "n2"} : WithVersion(n)
  \/ \E n \in Nodes : \E c \in Nodes : WithSubCommands(n, <<c>>)
  \/ Dump("n1")

Spec == Init /\ [][Next]_vars

\* The sub-command child has every option of parent that it is to inherit,
\* under the option's canonical name and under its short flag
InheritsFrom(child, parent) ==
  \A i \in DOMAIN cmds[parent].opts :
    LET option == cmds[parent].opts[i].v
    IN (/\ option.name[2] # HelpFlags[2]
        /\ ~(cmds[child].inheritOpts.hasExcept
             /\ option.name[2] \in Range(cmds[child].inheritOpts.except)))
       => /\ Has(cmds[child].opts, getDefName(option))
          /\ Has(cmds[child].opts, getFlagName(cmds[child], option.name[1]))

MaxRuns == 1


\* The value the model's assigning hooks pass to assign
Assigned == Num(2)

OptFirst(onProcess, validator) ==
  Option(<<Word.f, Word.first>>, FALSE, FALSE, FALSE, <<>>, Undefined, NoHook, onProcess, validator)

ArgSecond(onProcess, validator) ==
  Argument(Word.second, FALSE, FALSE, Undefined, NoHook, onProcess, validator)

OptThird ==
  Option(<<Word.th, Word.third>>, FALSE, FALSE, TRUE,
         <<[Arg(Word.value) EXCEPT !.validator = "onlyNumbers"]>>, Undefined, NoHook,
         NoopOnProcess, "none")

OptFourth == [Flag(Word.fo, Word.fourth) EXCEPT !.onProcess = NoopOnProcess]

\* The commands as the constructors leave them: n1 constructed with the
\* opts parameter opts1, n2 with the given inheritOpts
Constructed(opts1, inherit2) ==
  [n \in Nodes |-> NewCliCommand(n, NodeName(n),
                     IF n = "n1" THEN opts1
                     ELSE IF n = "n2" /\ inherit2.on THEN OnlyInheritOpts(inherit2)
                     ELSE DefaultCliCommandOptions)]

\* One builder call on node n, as data
Call(op, n, list) == [op |-> op, n |-> n, list |-> list]

Apply(cs, c) ==
  CASE c.op = "withOptions" -> withOptions(cs, c.n, c.list)
    [] c.op = "withArguments" -> withArguments(cs, c.n, c.list)
    [] c.op = "withSubCommands" -> withSubCommands(cs, c.n, c.list)
    [] c.op = "withVersion" -> withVersion(cs, c.n)
    [] c.op = "withHandler" -> [cs |-> withHandler(cs, c.n), err |-> "none"]

\* The commands after a program's builder calls, made one after the other
\* up to the first that throws
RECURSIVE Build(_, _)
Build(cs, calls) ==
  LET Applied(r) == IF r.err # "none" THEN r.cs ELSE Build(r.cs, Tail(calls))
  IN IF calls = <<>> THEN cs ELSE Applied(Apply(cs, Head(calls)))

\* .withHandler(...) on each of the nodes of H
Handlers(H) ==
  SelectSeq(<<Call("withHandler", "n1", <<>>), Call("withHandler", "n2", <<>>),
              Call("withHandler", "n3", <<>>)>>,
            LAMBDA c : c.n \in H)

\* new CliCommand('app').withOptions(first).withArguments(second)
\*   .withOptions(third)
FlatTree(a, b) ==
  [opts1 |-> DefaultCliCommandOptions, inherit2 |-> NoInherit,
   calls |-> <<Call("withOptions", "n1", <<a>>), Call("withArguments", "n1", <<b>>),
               Call("withOptions", "n1", <<OptThird>>)>>]

\* sub = new CliCommand('sub', { inheritOpts: true }).withArguments(second);
\* new CliCommand('app').withSubCommands(sub, leaf)
\*   .withOptions(first, third, fourth)
InheritTree(a, b) ==
  [opts1 |-> DefaultCliCommandOptions, inherit2 |-> InheritAll,
   calls |-> <<Call("withArguments", "n2", <<b>>),
               Call("withSubCommands", "n1", <<"n2", "n3">>),
               Call("withOptions", "n1", <<a, OptThird, OptFourth>>)>>]

\* app.withSubCommands(sub); sub.withSubCommands(app, leaf);
\* app.withOptions(first); leaf.withArguments(second)
CyclicTree(a, b) ==
  [opts1 |-> DefaultCliCommandOptions, inherit2 |-> NoInherit,
   calls |-> <<Call("withSubCommands", "n1", <<"n2">>),
               Call("withSubCommands", "n2", <<"n1", "n3">>),
               Call("withOptions", "n1", <<a>>), Call("withArguments", "n3", <<b>>)>>]

ProcessValidators == {"none", "rejectNumbers", "onlyNumbers"}

ProcessOptions ==
  {OptFirst(h, v) : h \in {NoopOnProcess, AssignOnProcess(Assigned)}, v \in ProcessValidators}

ProcessArguments ==
  {ArgSecond(h, v) : h \in {NoOnProcess, AssignOnProcess(Assigned)}, v \in ProcessValidators}

\* The sets of nodes given a handler
HandlerSets == {Nodes, Nodes \ {"n1"}, Nodes \ {"n2"}, Nodes \ {"n3"}}

\* The programs whose commands process() is called on
ProcessProgram(shape, a, b) ==
  CASE shape = "flat" -> FlatTree(a, b)
    [] shape = "inherit" -> InheritTree(a, b)
    [] shape = "cyclic" -> CyclicTree(a, b)

Built(program, H) ==
  Build(Constructed(program.opts1, program.inherit2), program.calls \o Handlers(H))

\* The token lists given to process(tokens, { raw: true })
ProcessInputs ==
  {<<>>, <<Word.app, Word.hi>>, <<Word.sub, Word.hi>>, <<Word.first, Word.sub>>,
   <<Word.app, Word.sub, Word.leaf, Word.hi>>, <<Word.f, Word.th, Word.hi, Word.hi>>,
   <<Word.app, Word.app, Word.sub>>}

InitProcess ==
  /\ \E shape \in {"flat", "inherit", "cyclic"}, a \in ProcessOptions,
        b \in ProcessArguments, H \in HandlerSets :
       cmds = Built(ProcessProgram(shape, a, b), H)
  /\ call = NoCall
  /\ proc = IdleProc

\* A pipeline that records the exception and goes on where it was
carryOn(p, err, log) == [p EXCEPT !.err = err, !.log = log]

Rejected(p, err, log) == [p EXCEPT !.pc = "rejected", !.err = err, !.log = log]

At(p, position) == [p EXCEPT !.pc = position.pc, !.i = position.i]

\* An assign that writes the value before it awaits the validator
assignThenValidate(parsed, definition, value) ==
  [err |-> validate(value, definition),
   parsed |-> [parsed EXCEPT ![TypeOf(definition)] = Put(@, getDefName(definition), value)]]

\* An assign whose write is still outstanding when the hook's promise settles
assignUnsettled(parsed, definition, value) ==
  [err |-> validate(value, definition), parsed |-> parsed]

\* const assign = async (value) => { await this.validate(...);
\* parsed[type][name] = value }: the exception thrown and parsed afterwards
assign(parsed, definition, value) ==
  LET e == validate(value, definition)
  IN [err |-> e,
      parsed |-> IF e # "none" THEN parsed
                 ELSE [parsed EXCEPT ![TypeOf(definition)] =
                         Put(@, getDefName(definition), value)]]

\* process(tokens, { raw: true }) on node n up to its first await:
\* checkForMissingCommandHandlers, parse, getCommand
Process(n, tokens) ==
  /\ proc.pc \in {"idle", "done", "rejected"}
  /\ call.parses < MaxRuns
  /\ LET started == [IdleProc EXCEPT !.root = n]
         called == [NoCall EXCEPT !.op = "process", !.node = n, !.tokens = tokens,
                                  !.count = call.count + 1, !.parses = call.parses + 1]
         Selected(p, command) ==
           /\ cmds' = p.cs
           /\ call' = [called EXCEPT !.err = p.err, !.final = p.node, !.log = p.log]
           /\ proc' = IF p.err # "none"
                      THEN Rejected([started EXCEPT !.parsedNode = p.node], p.err, <<>>)
                      ELSE At([started EXCEPT !.command = command, !.parsedNode = p.node],
                              Advance(p.cs[command], "hooks", 1))
         Parsed(p) == Selected(p, getCommand(p.cs, n, tokens))
         Checked(e) ==
           IF e # "none"
           THEN /\ cmds' = cmds
                /\ call' = [called EXCEPT !.err = e]
                /\ proc' = Rejected(started, e, <<>>)
           ELSE Parsed(parse(cmds, n, tokens, TRUE))
     IN Checked(checkForMissingCommandHandlers(cmds, n, {}))

\* One turn of runOnProcessHooks' loop that awaits a hook.  The definition,
\* its name and what assign does are each computed once.
HookStep ==
  /\ proc.pc = "hooks"
  /\ \E definition \in {cmds[proc.command].onProcessQueue[proc.i]} :
     \E name \in {getDefName(definition)} :
     \E a \in {assign(cmds[proc.parsedNode].parsed, definition, definition.onProcess.v)} :
       LET c == cmds[proc.command]
           value == Bound(cmds[proc.parsedNode].parsed, TypeOf(definition), name)
           hooked == Append(proc.log, Event("hook", proc.command, definition.kind, name, value, proc.i))
           assigned == Append(hooked, Event("assign", proc.command, definition.kind, name,
                                            definition.onProcess.v, proc.i))
       IN IF definition.onProcess.t = "assign"
          THEN /\ cmds' = [cmds EXCEPT ![proc.parsedNode].parsed = a.parsed]
               /\ proc' = IF a.err # "none" THEN Rejected(proc, a.err, hooked)
                          ELSE [At(proc, Advance(c, "hooks", proc.i + 1)) EXCEPT !.log = assigned]
          ELSE /\ cmds' = cmds
               /\ proc' = [At(proc, Advance(c, "hooks", proc.i + 1)) EXCEPT !.log = hooked]
  /\ UNCHANGED call

\* One turn of runValidators' loop that awaits a validator
ValidatorStep ==
  /\ proc.pc \in {"args", "opts"}
  /\ LET c == cmds[proc.command]
         entries == IF proc.pc = "args" THEN c.argsMap ELSE c.opts
         name == entries[proc.i].k
         definition == entries[proc.i].v
         value == Bound(cmds[proc.parsedNode].parsed, proc.pc, name)
         e == validate(value, definition)
         validated == Append(proc.log,
                        [Event("validate", proc.command, definition.kind, name, value, proc.i)
                           EXCEPT !.res = ValidatorResult(definition.validator, value)])
     IN proc' = IF e # "none" THEN Rejected(proc, e, validated)
                ELSE [At(proc, Advance(c, proc.pc, proc.i + 1)) EXCEPT !.log = validated]
  /\ UNCHANGED <<cmds, call>>

\* return command.handler(parsed.args, parsed.opts, parsed.extra)
HandlerStep ==
  /\ proc.pc = "handler"
  /\ proc' = [proc EXCEPT
       !.pc = "done",
       !.received = cmds[proc.parsedNode].parsed,
       !.result = IF cmds[proc.command].handler THEN HandlerResult(proc.command) ELSE Undefined,
       !.log = IF cmds[proc.command].handler
               THEN Append(@, Event("handler", proc.command, "-", <<>>, Undefined, 0))
               ELSE @]
  /\ UNCHANGED <<cmds, call>>

NextProcess ==
  \/ \E n \in Nodes, tokens \in ProcessInputs : Process(n, tokens)
  \/ HookStep
  \/ ValidatorStep
  \/ HandlerStep

SpecProcess == InitProcess /\ [][NextProcess]_vars

\* ------------------------------------------------------------------------
\* Properties of process()
\* ------------------------------------------------------------------------

\* The definition whose hook is awaited next
Hooked == cmds[proc.command].onProcessQueue[proc.i]

KindType(kind) == IF kind = "arg" THEN "args" ELSE "opts"

\* The hook awaited next calls assign(v): a validator that does not return
\* true for v rejects the call and leaves the parse result as it was;
\* otherwise v is bound afterwards
C2_AssignStep ==
  (proc.pc = "hooks" /\ Hooked.onProcess.t = "assign") =>
    IF Hooked.validator # "none"
       /\ ValidatorResult(Hooked.validator, Hooked.onProcess.v) # "true"
    THEN /\ proc'.pc = "rejected"
         /\ proc'.err = "ValidationError"
         /\ cmds'[proc.parsedNode].parsed = cmds[proc.parsedNode].parsed
    ELSE /\ proc'.pc # "rejected"
         /\ Bound(cmds'[proc.parsedNode].parsed, TypeOf(Hooked), getDefName(Hooked))
              = Hooked.onProcess.v

\* The handler receives, for each definition, the value last assigned to it
C2_HandlerStep ==
  (proc.pc = "handler" /\ proc'.pc = "done") =>
    \A i \in DOMAIN proc.log :
      (/\ proc.log[i].e = "assign"
       /\ \A j \in DOMAIN proc.log :
            (j > i /\ proc.log[j].e = "assign" /\ proc.log[j].kind = proc.log[i].kind)
              => proc.log[j].name # proc.log[i].name)
        => Bound(proc'.received, KindType(proc.log[i].kind), proc.log[i].name)
             = proc.log[i].value

\* C2: during process(), assign(v) called by an onProcess hook rejects with
\* a ValidationError and leaves the bound value unchanged when the
\* definition's validator does not return true for v; when the validator
\* accepts v, or there is none, the bound value becomes v, and the handler
\* receives it.
C2_AssignValidatesThenWrites == [][C2_AssignStep /\ C2_HandlerStep]_vars

\* A hook's assign was rejected by the definition's validator
C2_Witness ==
  /\ proc.pc = "rejected"
  /\ proc.err = "ValidationError"
  /\ proc.log # <<>>
  /\ proc.log[Len(proc.log)].e = "hook"
  /\ cmds[proc.command].onProcessQueue[proc.log[Len(proc.log)].taken].onProcess.t = "assign"
  /\ cmds[proc.command].onProcessQueue[proc.log[Len(proc.log)].taken].validator # "none"

Before(e1, e2) ==
  \A i, j \in DOMAIN proc.log :
    (proc.log[i].e \in e1 /\ proc.log[j].e \in e2) => i < j

\* The definitions of the invoked command that have a validator, with the
\* key under which each is registered
Validated(type) ==
  LET entries == IF type = "args" THEN cmds[proc.command].argsMap
                 ELSE cmds[proc.command].opts
  IN {i \in DOMAIN entries : entries[i].v.validator # "none"}

AllValidatorsAccepted(type) ==
  LET entries == IF type = "args" THEN cmds[proc.command].argsMap
                 ELSE cmds[proc.command].opts
  IN \A i \in Validated(type) :
       /\ ValidatorResult(entries[i].v.validator, Bound(proc.received, type, entries[i].k))
            = "true"
       /\ \E j \in DOMAIN proc.log :
            /\ proc.log[j].e = "validate"
            /\ KindType(proc.log[j].kind) = type
            /\ proc.log[j].name = entries[i].k
            /\ proc.log[j].res = "true"
            /\ proc.log[j].value = Bound(proc.received, type, entries[i].k)

\* C3: in a process() call every onProcess hook finishes before any
\* validator of the final pass starts, the validators of the arguments
\* finish before those of the options, all of them before the handler; the
\* handler is invoked at most once, and only if every validator of the
\* invoked command's arguments and options returned true for the value then
\* bound; process() resolves to what the handler returned.
C3_HooksThenValidatorsThenHandler ==
  /\ Before({"hook", "assign"}, {"validate"})
  /\ \A i, j \in DOMAIN proc.log :
       (/\ proc.log[i].e = "validate" /\ proc.log[i].kind = "arg"
        /\ proc.log[j].e = "validate" /\ proc.log[j].kind = "opt") => i < j
  /\ Before({"hook", "assign", "validate"}, {"handler"})
  /\ Cardinality({i \in DOMAIN proc.log : proc.log[i].e = "handler"}) <= 1
  /\ (\E i \in DOMAIN proc.log : proc.log[i].e = "handler") =>
       /\ AllValidatorsAccepted("args")
       /\ AllValidatorsAccepted("opts")
       /\ proc.pc = "done"
       /\ proc.result = HandlerResult(proc.command)
  /\ proc.pc = "done" => \E i \in DOMAIN proc.log : proc.log[i].e = "handler"

\* A call in which a hook, a validator of an argument, a validator of an
\* option and the handler have run
C3_Witness ==
  /\ proc.pc = "done"
  /\ \E i \in DOMAIN proc.log : proc.log[i].e = "hook"
  /\ \E i \in DOMAIN proc.log : proc.log[i].e = "validate" /\ proc.log[i].kind = "arg"
  /\ \E i \in DOMAIN proc.log : proc.log[i].e = "validate" /\ proc.log[i].kind = "opt"

\* The place of a hook's definition in the order of registration on the
\* invoked command: the index at which it first entered onProcessQueue
Registered(ev) ==
  LET queue == cmds[proc.command].onProcessQueue
      Is(k) == queue[k].kind = ev.kind /\ getDefName(queue[k]) = ev.name
  IN CHOOSE k \in DOMAIN queue : Is(k) /\ \A l \in 1..(k - 1) : ~Is(l)

\* C4: process() invokes the onProcess hooks of the invoked command in the
\* order in which their definitions were registered on it: no hook of a
\* definition is invoked after a hook of a definition registered later.
C4_HooksInRegistrationOrder ==
  \A i, j \in DOMAIN proc.log :
    (i < j /\ proc.log[i].e = "hook" /\ proc.log[j].e = "hook")
      => Registered(proc.log[i]) <= Registered(proc.log[j])

\* The commands reachable from those of S through registered sub-commands
RECURSIVE Reachable(_)
Reachable(S) ==
  LET more == S \cup UNION {Range(Values(cmds[m].subCommands)) : m \in S}
  IN IF more = S THEN S ELSE Reachable(more)

C5_ProcessStep ==
  (call'.count # call.count /\ \E m \in Reachable({call'.node}) : ~cmds[m].handler) =>
    /\ proc'.pc = "rejected"
    /\ proc'.err = "NoCommandHandler"
    /\ cmds' = cmds
    /\ call'.log = <<>>
    /\ proc'.log = <<>>

\* C5: when the invoked command or a command reachable from it through
\* registered sub-commands has no handler, process() rejects with a
\* no-handler error before any token is consumed: no hook, validator or
\* handler runs and no node's parse accumulators change.
C5_RejectsBeforeParsing == [][C5_ProcessStep]_vars


\* ------------------------------------------------------------------------
\* SpecParse: parse() on commands that were just built
\* ------------------------------------------------------------------------

MaxTokens == 2

MaxValues == 2

\* { name, variadic: true, required, defaultValue }
Variadic(name, required, defaultValue) ==
  Argument(name, required, TRUE, defaultValue, NoHook, NoOnProcess, "none")

\* { name: flags, required, args, defaultValue }
WithArgs(flags, required, args, defaultValue) ==
  Option(flags, required, FALSE, TRUE, args, defaultValue, NoHook, NoOnProcess, "none")

OptPair ==
  WithArgs(<<Word.p, Word.pair>>, FALSE,
           <<Variadic(Word.left, FALSE, Undefined), Variadic(Word.right, FALSE, Undefined)>>,
           Undefined)

OptResidents ==
  WithArgs(<<Word.r, Word.residents>>, FALSE,
           <<[Arg(Word.owner) EXCEPT !.required = TRUE],
             Variadic(Word.adults, FALSE, Undefined),
             Variadic(Word.children, FALSE, Undefined)>>,
           Undefined)

OptMany(required) ==
  WithArgs(<<Word.m, Word.many>>, FALSE, <<Variadic(Word.things, required, Undefined)>>,
           List(<<Word.file>>))

OptDir(required, pathRequired) ==
  WithArgs(<<Word.d, Word.dir>>, required, <<[Arg(Word.path) EXCEPT !.required = pathRequired]>>,
           Str(Word.file))

\* new CliCommand('app', o)
\*   .withArguments({ name: 'files', variadic: true, required: r1 },
\*                  { name: 'dirs', variadic: true, required: r2,
\*                    defaultValue: ['file'] })
\*   .withOptions(pair, quiet, test)
ArgumentsTree(o, r1, r2) ==
  [opts1 |-> o, inherit2 |-> NoInherit,
   calls |-> <<Call("withArguments", "n1",
                    <<Variadic(Word.files, r1, Undefined),
                      Variadic(Word.dirs, r2, List(<<Word.file>>))>>),
               Call("withOptions", "n1", <<OptPair, OptQuiet, OptTest>>)>>]

\* new CliCommand('app', o).withOptions(residents, many, dir, quiet, test)
\*   .withSubCommands(new CliCommand('sub').withArguments(
\*      { name: 'second', required: r1, onParse: spy },
\*      { name: 'rest', variadic: true, required: r2 }))
OptionsTree(o, r1, r2, r3) ==
  [opts1 |-> o, inherit2 |-> NoInherit,
   calls |-> <<Call("withOptions", "n1",
                    <<OptResidents, OptMany(r1), OptDir(r3, r2), OptQuiet, OptTest>>),
               Call("withArguments", "n2",
                    <<[Arg(Word.second) EXCEPT !.required = r1, !.onParse = SpyHook],
                      Variadic(Word.rest, r2, Undefined)>>),
               Call("withSubCommands", "n1", <<"n2">>)>>]

\* The opts parameter of app's constructor: none; { consumeUnknownOpts:
\* true }; { consumeUnknownArgs: false }; and both flags true
ParseCommandOptions ==
  {DefaultCliCommandOptions,
   [OnlyInheritOpts(NoInherit) EXCEPT !.consumeUnknownOpts = Bool(TRUE)],
   [OnlyInheritOpts(NoInherit) EXCEPT !.consumeUnknownArgs = Bool(FALSE)],
   [OnlyInheritOpts(NoInherit) EXCEPT !.consumeUnknownArgs = Bool(TRUE),
                                      !.consumeUnknownOpts = Bool(TRUE)]}

\* new CliCommand('app', o).withOptions(quiet, test), where quiet may be
\* declared with args: [] and with the default value false instead of true
BareTree(o, emptyArgs, defaultFalse) ==
  [opts1 |-> o, inherit2 |-> NoInherit,
   calls |-> <<Call("withOptions", "n1",
                    <<[OptQuiet EXCEPT !.hasArgs = emptyArgs,
                                       !.defaultValue = Bool(~defaultFalse)],
                      OptTest>>)>>]

ParseProgram(shape, o, r1, r2, r3) ==
  CASE shape = "arguments" -> ArgumentsTree(o, r1, r2)
    [] shape = "options" -> OptionsTree(o, r1, r2, r3)
    [] shape = "bare" -> BareTree(o, r1, r2)

\* The lists of at most n tokens of A
TokenSeqs(A, n) == UNION {[1..k -> A] : k \in 0..n}

\* Lists of values: plain words; and with them a flag=value assignment
PlainLists == TokenSeqs({Word.a, Word.b}, MaxValues)

ValueLists == PlainLists \cup {<<Word.pa>>}

ParseAlphabet ==
  {Word.a, Word.term, Word.empty, Word.sub, Word.many, Word.d, Word.q, Word.quiet,
   Word.noQuiet, Word.noTest}

\* What precedes two lists of values separated by the terminator
Prefixes == {<<>>, <<Word.p>>, <<Word.residents, Word.j>>}

Terminated(prefix, xs, ys) == prefix \o xs \o <<Word.term>> \o ys

\* The token lists given to parse(tokens, { raw: true })
ParseInputs ==
  TokenSeqs(ParseAlphabet, MaxTokens)
    \cup {Terminated(prefix, xs, ys) : prefix \in Prefixes, xs \in ValueLists, ys \in ValueLists}
    \cup {<<Word.ab>>, <<Word.many, Word.ab>>, <<Word.a, Word.ab>>}

InitParse ==
  /\ \E shape \in {"arguments", "options", "bare"}, o \in ParseCommandOptions,
        r1 \in BOOLEAN, r2 \in BOOLEAN, r3 \in BOOLEAN :
       /\ shape = "arguments" => ~r3
       /\ shape = "bare" => ~r3
       /\ cmds = Built(ParseProgram(shape, o, r1, r2, r3), {})
  /\ call = NoCall
  /\ proc = IdleProc

\* A parse on commands that all throw on an unknown option, whatever their
\* consumeUnknownOpts says
ParseStrict(n, tokens) ==
  /\ call.op = "none"
  /\ LET Parsed(p) ==
           /\ cmds' = p.cs
           /\ call' = [NoCall EXCEPT !.op = "parse", !.node = n, !.tokens = tokens,
                                     !.err = p.err, !.final = p.node, !.log = p.log,
                                     !.count = 1, !.parses = 1]
     IN Parsed(parse([m \in Nodes |-> [cmds[m] EXCEPT !.consumeUnknownOpts = Bool(FALSE)]],
                     n, tokens, TRUE))
  /\ UNCHANGED proc

\* parse(tokens, { raw: true }) on node n, the first call made on the
\* commands
Parse(n, tokens) ==
  /\ call.op = "none"
  /\ LET Parsed(p) ==
           /\ cmds' = p.cs
           /\ call' = [NoCall EXCEPT !.op = "parse", !.node = n, !.tokens = tokens,
                                     !.err = p.err, !.final = p.node, !.log = p.log,
                                     !.count = 1, !.parses = 1]
     IN Parsed(parse(cmds, n, tokens, TRUE))
  /\ UNCHANGED proc

NextParse == \E tokens \in ParseInputs : Parse("n1", tokens)

SpecParse == InitParse /\ [][NextParse]_vars


\* ------------------------------------------------------------------------
\* Properties of parse()
\* ------------------------------------------------------------------------

AdjacentVariadic(args) == Len(args) >= 2 /\ args[1].variadic /\ args[2].variadic

\* The first two positional arguments A and B of the command with fields c
\* after xs ++ ['--'] ++ ys: A holds xs; B holds ys if ys is not empty (or
\* emptyToo), else B was never consumed and parse ended as
\* handleUnassignedArguments ends it
SplitPositional(c, xs, ys, emptyToo) ==
  LET A == getDefName(Values(c.argsMap)[1])
      B == Values(c.argsMap)[2]
  IN /\ Bound(c.parsed, "args", A) = List(xs)
     /\ Word.term \notin Range(c.parsed.extra)
     /\ IF ys # <<>> \/ emptyToo
        THEN /\ Bound(c.parsed, "args", getDefName(B)) = List(ys)
             /\ call.err = "none"
        ELSE IF B.required
        THEN call.err = "ExpectedButGot" /\ ~Has(c.parsed.args, getDefName(B))
        ELSE /\ Has(c.parsed.args, getDefName(B))
             /\ Get(c.parsed.args, getDefName(B)) = B.defaultValue
             /\ call.err = "none"

\* The option of c with the nested arguments A and B after
\* [flag] ++ xs ++ ['--'] ++ ys: it is bound to { A: xs, B: ys }
SplitNested(c, option, xs, ys) ==
  /\ Bound(c.parsed, "opts", getDefName(option)) =
       Obj(<<[k |-> getDefName(option.args[1]), v |-> List(xs)],
             [k |-> getDefName(option.args[2]), v |-> List(ys)]>>)
  /\ Word.term \notin Range(c.parsed.extra)

\* A token that is a plain value on the command with fields c: no option
\* flag, no flag=value assignment, not '--', not c's name, not ''
Plain(c, token) ==
  /\ ~isOptionName(token) /\ ~isOptionAssignment(token)
  /\ token \notin {Word.term, Word.empty, c.name}

\* The tokens are xs ++ ['--'] ++ ys for two lists of plain values
Terminates(c, tokens) ==
  \E i \in DOMAIN tokens :
    tokens[i] = Word.term /\ \A j \in DOMAIN tokens \ {i} : Plain(c, tokens[j])

TerminatorAt(tokens) == CHOOSE i \in DOMAIN tokens : tokens[i] = Word.term

UpToTerminator(tokens) == SubSeq(tokens, 1, TerminatorAt(tokens) - 1)

AfterTerminator(tokens) == SubSeq(tokens, TerminatorAt(tokens) + 1, Len(tokens))

SplitAtTerminator(emptyToo) ==
  call.op = "parse" =>
    LET c == cmds[call.node]
        tokens == call.tokens
    IN /\ (/\ AdjacentVariadic(Values(c.argsMap))
           /\ Terminates(c, tokens)
           /\ emptyToo \/ UpToTerminator(tokens) # <<>> \/ ~Values(c.argsMap)[1].required)
            => SplitPositional(c, UpToTerminator(tokens), AfterTerminator(tokens), emptyToo)
       /\ \A i \in DOMAIN c.opts :
            (/\ AdjacentVariadic(c.opts[i].v.args)
             /\ tokens # <<>> /\ Head(tokens) \in Range(c.opts[i].v.name)
             /\ Terminates(c, Tail(tokens)))
              => SplitNested(c, c.opts[i].v, UpToTerminator(Tail(tokens)),
                             AfterTerminator(Tail(tokens)))

OptionValueOfNested(i) ==
  LET e == call.log[i]
      args == Get(cmds[e.n].opts, e.name).args
      k == Len(args)
      nested(j) == call.log[i - k + j - 1]
  IN /\ i > k
     /\ \A j \in 1..k :
          /\ nested(j).e = "bind" /\ nested(j).kind = "nested" /\ nested(j).n = e.n
          /\ nested(j).name = getDefName(args[j])
     /\ k = 1 => e.value = nested(1).value
     /\ k # 1 => e.value = Obj([j \in 1..k |-> [k |-> getDefName(args[j]),
                                                  v |-> nested(j).value]])
     /\ Bound(cmds[e.n].parsed, "opts", e.name) = e.value

\* C7: when an option's flag is consumed, the option is bound to the bare
\* value of its nested argument if and only if it declares exactly one
\* nested argument; an option declaring k >= 2 nested arguments is bound to
\* a mapping with k entries, one per argument under its canonical name,
\* each consumed in declared order: [--residents, j] ++ xs ++ ['--'] ++ ys
\* gives { owner: j, adults: xs, children: ys }, and [-d, a] gives a.
C7_CollapseExactlyOneNested ==
  call.op = "parse" =>
    /\ \A i \in DOMAIN call.log :
         (/\ call.log[i].e = "bind" /\ call.log[i].kind = "opt"
          /\ Get(cmds[call.log[i].n].opts, call.log[i].name).args # <<>>)
           => OptionValueOfNested(i)
    /\ (/\ Has(cmds[call.node].opts, getDefName(OptResidents))
        /\ Len(call.tokens) > 2
        /\ SubSeq(call.tokens, 1, 2) = <<Word.residents, Word.j>>
        /\ Terminates(cmds[call.node], Drop(call.tokens, 3)))
         => Bound(cmds[call.node].parsed, "opts", getDefName(OptResidents)) =
              Obj(<<[k |-> Word.owner, v |-> Str(Word.j)],
                    [k |-> Word.adults, v |-> List(UpToTerminator(Drop(call.tokens, 3)))],
                    [k |-> Word.children, v |-> List(AfterTerminator(Drop(call.tokens, 3)))]>>)
    /\ (/\ Has(cmds[call.node].opts, <<"d", "i", "r">>)
        /\ call.tokens = <<Word.d, Word.a>>)
         => Bound(cmds[call.node].parsed, "opts", <<"d", "i", "r">>) = Str(Word.a)

\* C7's case: [--residents, j, a, b, --, b, a] was parsed and residents is
\* bound to a mapping of three entries
C7_Witness ==
  /\ call.op = "parse"
  /\ call.tokens = <<Word.residents, Word.j, Word.a, Word.b, Word.term, Word.b, Word.a>>
  /\ Bound(cmds["n1"].parsed, "opts", getDefName(OptResidents)).t = "object"
  /\ Len(Bound(cmds["n1"].parsed, "opts", getDefName(OptResidents)).v) = 3


\* The parse of [--no-x] ++ rest on node n, against r, the parse of rest
\* alone on the same commands: the first thing done is to bind the option
\* name to false, taking one token; and if rest does not hold x's flags,
\* all that follows is what the parse of rest does
NegatedThenRest(n, x, name, r) ==
  LET after == cmds'[n].parsed
      rest == r.cs[n].parsed
  IN /\ call'.log # <<>>
     /\ Head(call'.log) = Event("bind", n, "negated", name, Bool(FALSE), 1)
     /\ Bound(after, "opts", name) = Bool(FALSE)
     /\ (\A i \in DOMAIN call'.tokens : i > 1 => call'.tokens[i] \notin Range(x.name))
          => /\ Tail(call'.log) = r.log
             /\ call'.err = r.err
             /\ call'.final = r.node
             /\ after.args = rest.args
             /\ after.extra = rest.extra
             /\ \A j \in DOMAIN after.opts :
                  after.opts[j].k # name
                    => /\ Has(rest.opts, after.opts[j].k)
                       /\ Get(rest.opts, after.opts[j].k) = after.opts[j].v
             /\ call'.final # n => cmds'[call'.final].parsed = r.cs[call'.final].parsed

C8_ParseStep ==
  (call.op = "none" /\ call'.op = "parse") =>
    LET n == call'.node
        tokens == call'.tokens
        after == cmds'[n].parsed
    IN \A i \in DOMAIN cmds[n].opts :
         LET x == cmds[n].opts[i].v
             name == cmds[n].opts[i].k
             negated == getNegatedFlag(x.name[2])
         IN /\ (x.negatable /\ tokens # <<>> /\ Head(tokens) = negated)
                 => NegatedThenRest(n, x, name, parse(cmds, n, Tail(tokens), TRUE))
            /\ (/\ x.negatable
                /\ \A j \in DOMAIN tokens : tokens[j] \notin Range(x.name) \cup {negated}
                /\ call'.err = "none" /\ call'.final = n)
                 => Has(after.opts, name) /\ Get(after.opts, name) = x.defaultValue
            /\ (~x.negatable /\ tokens # <<>> /\ Head(tokens) = negated)
                 => IF cmds[n].consumeUnknownOpts = Bool(TRUE)
                    THEN /\ call'.log # <<>>
                         /\ Head(call'.log) = Event("extra", n, "opt", negated, Str(negated), 1)
                         /\ after.extra # <<>> /\ Head(after.extra) = negated
                         /\ Bound(after, "opts", name) # Bool(FALSE)
                    ELSE /\ call'.err = "UnknownOption"
                         /\ call'.log = <<>>
                         /\ ~Has(after.opts, name)

\* C8: for an option registered with negatable: true and long flag --x, the
\* token --no-x binds that option to false and consumes no further token
\* (what follows is parsed as it would be without the --no-x before it);
\* when neither --x, nor its short flag, nor --no-x appears and parse
\* returns on that command, the option has its default; for an option
\* registered without negatable, --no-x is handled as an unknown option: it
\* goes to extra under consumeUnknownOpts and is an unknown-option error
\* otherwise.
C8_NegationBindsFalse == [][C8_ParseStep]_vars

\* C8's case: [--no-quiet, a] bound quiet to false and a to the first
\* positional argument
C8_Witness ==
  /\ call.op = "parse"
  /\ call.tokens = <<Word.noQuiet, Word.a>>
  /\ Bound(cmds["n1"].parsed, "opts", <<"q", "u", "i", "e", "t">>) = Bool(FALSE)
  /\ Bound(cmds["n1"].parsed, "args", Word.files) = List(<<Word.a>>)


\* The log tells that on node f the definition of that role and name took
\* at least one value from the token stream
GotToken(f, role, name) ==
  \E i \in DOMAIN call.log :
    /\ call.log[i].e = "bind" /\ call.log[i].n = f /\ call.log[i].kind \in role
    /\ call.log[i].name = name
    /\ call.log[i].value # List(<<>>)

\* The log tells that consumeArgument was called on node f for the nested
\* argument of that name
NestedConsumed(f, name) ==
  \E i \in DOMAIN call.log :
    /\ call.log[i].e \in {"bind", "missing"} /\ call.log[i].n = f
    /\ call.log[i].kind = "nested" /\ call.log[i].name = name

\* The errors parse throws at a token, before the stream has run out
TokenErrors == {"UnknownOption", "DuplicateOption", "UnknownSubcommand", "UnexpectedArgument"}

\* The log has an event of kind e for the definition of that role and name
\* on node f
Logged(e, f, role, name) ==
  \E i \in DOMAIN call.log :
    /\ call.log[i].e = e /\ call.log[i].n = f /\ call.log[i].kind = role
    /\ call.log[i].name = name

\* On the command where parse ended, no required definition is without a
\* token unless parse failed: a positional argument, an option, an argument
\* nested in a supplied option.  variadicToo: also a variadic argument that
\* the parser came to consume when it had no value to take.
RequiredNeedToken(variadicToo) ==
  call.op = "parse" =>
    LET f == call.final
        c == cmds[f]
    IN /\ \A i \in DOMAIN c.argsMap :
            (/\ c.argsMap[i].v.required
             /\ ~GotToken(f, {"arg"}, c.argsMap[i].k)
             /\ \/ variadicToo
                \/ ~c.argsMap[i].v.variadic
                \/ ~Logged("bind", f, "arg", c.argsMap[i].k))
              => call.err \in {"ExpectedButGot"} \cup TokenErrors
       /\ \A i \in DOMAIN c.opts :
            /\ (c.opts[i].v.required /\ ~GotToken(f, {"opt", "negated"}, c.opts[i].k))
                 => call.err \in {"ExpectedButGot"} \cup TokenErrors
            /\ \A j \in DOMAIN c.opts[i].v.args :
                 LET arg == c.opts[i].v.args[j]
                 IN (/\ arg.required
                     /\ variadicToo \/ ~arg.variadic
                     /\ NestedConsumed(f, getDefName(arg))
                     /\ ~GotToken(f, {"nested"}, getDefName(arg)))
                      => /\ call.err = "ExpectedButGot"
                         /\ Logged("missing", f, "nested", getDefName(arg))

OthersSupplied(f, name) ==
  /\ call.err \notin TokenErrors
  /\ \A i \in DOMAIN call.log : call.log[i].e # "missing"
  /\ \A i \in DOMAIN cmds[f].opts :
       cmds[f].opts[i].v.required => GotToken(f, {"opt", "negated"}, cmds[f].opts[i].k)
  /\ \A i \in DOMAIN cmds[f].argsMap :
       (cmds[f].argsMap[i].k # name /\ cmds[f].argsMap[i].v.required)
         => Logged("bind", f, "arg", cmds[f].argsMap[i].k)

\* What a variadic argument without a token is bound to: [] and no error
\* if consumeArgument was called for it.  asClaimed: [] and no error also if
\* it is a positional argument never reached.  Otherwise: such an argument,
\* if it is not required, holds its defaultValue.
VariadicWithoutToken(asClaimed) ==
  call.op = "parse" =>
    LET f == call.final
        c == cmds[f]
        first == cmds[call.node].parsed
        tokens == call.tokens
        Counted(arg) == arg.variadic
        Unreached(arg) == arg.variadic /\ (asClaimed \/ ~arg.required)
        NoValueNext == \/ Len(tokens) = 1
                       \/ tokens[2] \in {Word.term, Word.empty}
                       \/ isOptionName(tokens[2])
    IN /\ \A i \in DOMAIN c.opts : \A j \in DOMAIN c.opts[i].v.args :
            LET name == getDefName(c.opts[i].v.args[j])
            IN (/\ Counted(c.opts[i].v.args[j])
                /\ NestedConsumed(f, name)
                /\ ~GotToken(f, {"nested"}, name))
                 => /\ Logged("bind", f, "nested", name)
                    /\ ~Logged("missing", f, "nested", name)
                    /\ Len(c.opts[i].v.args) = 1
                         => Bound(c.parsed, "opts", c.opts[i].k) = List(<<>>)
       /\ \A i \in DOMAIN cmds[call.node].opts :
            LET option == cmds[call.node].opts[i].v
            IN (/\ Len(option.args) = 1 /\ Counted(option.args[1])
                /\ tokens # <<>> /\ Head(tokens) \in Range(option.name)
                /\ NoValueNext)
                 => /\ Bound(first, "opts", getDefName(option)) = List(<<>>)
                    /\ Bound(first, "opts", getDefName(option)) # option.defaultValue
       /\ \A i \in DOMAIN cmds[call.node].argsMap :
            (/\ i = 1 /\ Counted(cmds[call.node].argsMap[i].v)
             /\ tokens # <<>> /\ Head(tokens) \in {Word.term, Word.empty})
              => Bound(first, "args", cmds[call.node].argsMap[i].k) = List(<<>>)
       /\ \A i \in DOMAIN c.argsMap :
            (/\ Unreached(c.argsMap[i].v)
             /\ ~Logged("bind", f, "arg", c.argsMap[i].k)
             /\ OthersSupplied(f, c.argsMap[i].k))
              => /\ call.err = "none"
                 /\ Has(c.parsed.args, c.argsMap[i].k)
                 /\ Get(c.parsed.args, c.argsMap[i].k) =
                      IF asClaimed THEN List(<<>>) ELSE c.argsMap[i].v.defaultValue

\* C10 as stated: a variadic argument definition - positional or nested in
\* an option, required or not - for which no token was taken is bound to
\* the empty list and raises no missing-value error; a supplied option whose
\* only nested argument is variadic and gets no value is bound to [] and
\* not to the option's defaultValue.
C10_VariadicWithoutTokenIsEmpty == VariadicWithoutToken(TRUE)

\* C10, amended: a variadic argument, required or not, for which no token
\* was taken is bound to the empty list, and no missing-value error is
\* raised for it, if the parser came to consume it (nested in a supplied
\* option, or positional with a token at the head of the queue); a
\* positional variadic argument that the parser never reached and that is
\* not required is bound to its defaultValue.  A supplied option whose only
\* nested argument is variadic and gets no value is bound to [] and not to
\* the option's defaultValue.
C10_ConsumedVariadicWithoutToken == VariadicWithoutToken(FALSE)

\* C10's case: [--many] alone bound many to [], things being required
C10_Witness ==
  /\ call.op = "parse"
  /\ call.tokens = <<Word.many>>
  /\ Has(cmds["n1"].opts, <<"m", "a", "n", "y">>)
  /\ Get(cmds["n1"].opts, <<"m", "a", "n", "y">>).args[1].required
  /\ Bound(cmds["n1"].parsed, "opts", <<"m", "a", "n", "y">>) = List(<<>>)


\* The tokens that resolve to an option: its two flags and, if it is
\* negatable, its --no- alias
Spellings(option) ==
  Range(option.name) \cup
    (IF option.negatable THEN {getNegatedFlag(option.name[2])} ELSE {})

\* No option is bound twice by one parse, and two tokens that are spellings
\* of one option without arguments end in a duplicate-option error with the
\* first binding kept.  aliasToo: also when the second token is the --no-
\* alias.
TwiceFails(aliasToo) ==
  call.op = "parse" =>
    /\ \A i \in DOMAIN call.log : \A j \in DOMAIN call.log :
         (/\ i < j
          /\ call.log[i].e = "bind" /\ call.log[i].kind \in {"opt", "negated"}
          /\ call.log[j].e = "bind" /\ call.log[j].kind \in {"opt", "negated"}
          /\ call.log[i].n = call.log[j].n /\ call.log[i].name = call.log[j].name)
           => ~aliasToo /\ call.log[j].kind = "negated"
    /\ \A k \in DOMAIN cmds[call.node].opts :
         LET option == cmds[call.node].opts[k].v
             tokens == call.tokens
         IN (/\ ~option.hasArgs /\ Len(tokens) = 2
             /\ tokens[1] \in Spellings(option) /\ tokens[2] \in Spellings(option)
             /\ aliasToo \/ tokens[2] # getNegatedFlag(option.name[2]))
              => /\ call.err = "DuplicateOption"
                 /\ Bound(cmds[call.node].parsed, "opts", cmds[call.node].opts[k].k) =
                      Bool(tokens[1] \in Range(option.name))

\* C11: within one parse pass no option is bound twice: if two tokens of the
\* stream both resolve to the same option - by its long flag, its short
\* flag or its --no- alias, in any combination and order - parse() fails
\* with a duplicate-option error instead of overwriting the first binding.
C11_NoOptionBoundTwice == TwiceFails(TRUE)


\* a is b with some of its elements left out
RECURSIVE IsSubseq(_, _)
IsSubseq(a, b) ==
  IF a = <<>> THEN TRUE
  ELSE IF b = <<>> THEN FALSE
  ELSE IF Head(a) = Head(b) THEN IsSubseq(Tail(a), Tail(b))
  ELSE IsSubseq(a, Tail(b))

\* A syntactically valid option flag that matches no registered option and
\* no negation alias of the command with fields c
UnknownFlag(c, token) ==
  /\ isOptionName(token)
  /\ ~Has(c.opts, getFlagName(c, token))
  /\ ~Has(c.negatableOptsMap, token)

\* The tokens that the log says were put in extra on node n, in order
RECURSIVE ExtraLogged(_, _)
ExtraLogged(log, n) ==
  IF log = <<>> THEN <<>>
  ELSE (IF Head(log).e = "extra" /\ Head(log).n = n THEN <<Head(log).name>> ELSE <<>>)
       \o ExtraLogged(Tail(log), n)

\* The parse of [token] ++ rest on node n, against r, the parse of rest
\* alone on the same commands: the token goes to extra first (role: as an
\* option "opt" or as an argument "arg"), nothing is
\* bound for it, and all that follows is what the parse of rest does
ExtraThenRest(n, role, token, r) ==
  /\ call'.log # <<>>
  /\ Head(call'.log) = Event("extra", n, role, token, Str(token), 1)
  /\ Tail(call'.log) = r.log
  /\ call'.err = r.err
  /\ call'.final = r.node
  /\ cmds'[n].parsed.extra = <<token>> \o r.cs[n].parsed.extra
  /\ cmds'[n].parsed.opts = r.cs[n].parsed.opts
  /\ cmds'[n].parsed.args = r.cs[n].parsed.args
  /\ \A m \in Nodes \ {n} : cmds'[m].parsed = r.cs[m].parsed

C12_ParseStep ==
  (call.op = "none" /\ call'.op = "parse") =>
    LET n == call'.node
        tokens == call'.tokens
    IN /\ (tokens # <<>> /\ UnknownFlag(cmds[n], Head(tokens)))
            => IF cmds[n].consumeUnknownOpts = Bool(TRUE)
               THEN ExtraThenRest(n, "opt", Head(tokens), parse(cmds, n, Tail(tokens), TRUE))
               ELSE /\ call'.err = "UnknownOption"
                    /\ call'.final = n
                    /\ call'.log = <<>>
                    /\ cmds'[n].parsed = cmds[n].parsed
       /\ \A i \in DOMAIN call'.log :
            (call'.log[i].e = "extra" /\ call'.log[i].kind = "opt")
              => /\ UnknownFlag(cmds[call'.log[i].n], call'.log[i].name)
                 /\ cmds[call'.log[i].n].consumeUnknownOpts = Bool(TRUE)
       /\ call'.err = "UnknownOption" => cmds[call'.final].consumeUnknownOpts # Bool(TRUE)
       /\ \A m \in Nodes :
            /\ cmds'[m].parsed.extra = ExtraLogged(call'.log, m)
            /\ IsSubseq(cmds'[m].parsed.extra, splitOptionAssignments(tokens))

UnknownArgument(byDefault) ==
  (call.op = "none" /\ call'.op = "parse") =>
    LET n == call'.node
        tokens == call'.tokens
        Collect(c) == IF byDefault THEN c.consumeUnknownArgs # Bool(FALSE)
                      ELSE c.consumeUnknownArgs = Bool(TRUE)
    IN /\ (/\ tokens # <<>> /\ ~isOptionName(Head(tokens))
           /\ ~isOptionAssignment(Head(tokens)) /\ Head(tokens) # cmds[n].name
           /\ isEmpty(cmds[n].args) /\ isEmpty(cmds[n].subCommands))
            => IF Collect(cmds[n])
               THEN ExtraThenRest(n, "arg", Head(tokens), parse(cmds, n, Tail(tokens), TRUE))
               ELSE /\ call'.err = "UnexpectedArgument"
                    /\ call'.final = n
                    /\ call'.log = <<>>
                    /\ cmds'[n].parsed = cmds[n].parsed
       /\ \A i \in DOMAIN call'.log :
            (call'.log[i].e = "extra" /\ call'.log[i].kind = "arg")
              => /\ ~isOptionName(call'.log[i].name)
                 /\ Collect(cmds[call'.log[i].n])
       /\ call'.err = "UnexpectedArgument" => ~Collect(cmds[call'.final])

\* C13: a non-option token that arrives when the node has no unconsumed
\* argument definition and no sub-commands is appended to extra by default,
\* that is on every command not constructed with consumeUnknownArgs: false,
\* whatever other constructor options were given, and raises an
\* unexpected-argument error only when consumeUnknownArgs is false.
C13_UnknownArgumentToExtraByDefault == [][UnknownArgument(TRUE)]_vars


\* ------------------------------------------------------------------------
\* SpecBuild: builder calls and parse() calls in any order
\* ------------------------------------------------------------------------

\* An option with the short flag of --test
OptToo == Flag(Word.t, Word.third)

\* The option --test as the sub-command registers it itself
OwnTest == [OptTest EXCEPT !.defaultValue = Str(Word.a)]

\* The argument lists that withArguments is called with
ArgumentLists ==
  {<<Arg(Word.second)>>, <<Arg(Word.files), Arg(Word.first)>>,
   <<Arg(Word.myDashArg), Arg(Word.myArg)>>}

WithArguments(n, args) ==
  /\ call.count < MaxCalls
  /\ LET r == withArguments(cmds, n, args)
     IN /\ cmds' = r.cs
        /\ call' = Called("withArguments", n, r.err)
  /\ UNCHANGED proc

\* parse(tokens, { raw: true }) on node n, on the commands as the calls
\* before it left them
ParseBuilt(n, tokens) ==
  /\ call.count < MaxCalls
  /\ LET Parsed(p) ==
           /\ cmds' = p.cs
           /\ call' = [Called("parse", n, p.err) EXCEPT !.tokens = tokens, !.final = p.node,
                                                       !.log = p.log,
                                                       !.parses = call.parses + 1]
     IN Parsed(parse(cmds, n, tokens, TRUE))
  /\ UNCHANGED proc

\* The calls made: withArguments on app with one argument and with two, of
\* which '--first' is no valid name; withOptions on app, with --test,
\* --quiet and an option that has the short flag of --test; withOptions on
\* sub with a --test of its own; withSubCommands down the tree; parse on app
NextBuild ==
  \/ \E args \in ArgumentLists : WithArguments("n1", args)
  \/ \E options \in {<<OptTest>>, <<OptQuiet>>, <<OptToo>>} : WithOptions("n1", options)
  \/ WithOptions("n2", <<OwnTest>>)
  \/ \E e \in {<<"n1", "n2">>, <<"n1", "n3">>, <<"n2", "n3">>} : WithSubCommands(e[1], <<e[2]>>)
  \/ \E tokens \in {<<Word.a>>, <<Word.t>>, <<HelpFlags[2]>>, <<Word.sub, HelpFlags[2]>>,
                      <<Word.sub, Word.leaf, HelpFlags[1]>>, <<Word.leaf, Word.t>>} :
       ParseBuilt("n1", tokens)

SpecBuild == Init /\ [][NextBuild]_vars

\* No command has both the kinds of entries counted: sub-commands and, if
\* registered, arguments in its register argsMap, else arguments in the
\* list args, from which parse() takes what it consumes
NeverBoth(registered) ==
  \A n \in Nodes :
    ~(/\ ~isEmpty(cmds[n].subCommands)
      /\ ~isEmpty(IF registered THEN cmds[n].argsMap ELSE cmds[n].args))

\* C14: in every reachable state - after any sequence of successful or
\* failed withArguments, withOptions, withSubCommands and parse calls - no
\* command node has both a registered positional argument and a registered
\* sub-command.
C14_ArgumentsOrSubCommands == NeverBoth(TRUE)


\* ------------------------------------------------------------------------
\* Properties of the builder calls
\* ------------------------------------------------------------------------

\* The option's canonical name or its short name is registered on the
\* command with fields c
AlreadyRegistered(c, option) ==
  \/ Has(c.opts, getDefName(option))
  \/ Has(c.shortNameMap, getShortName(option))

\* A withOptions call whose first option is already registered on the node
\* throws a duplicate-option error and leaves the node's options and
\* short-name lookup as they were
C15_WithOptionsStep ==
  \A n \in Nodes, options \in OptionLists :
    (WithOptions(n, options) /\ AlreadyRegistered(cmds[n], Head(options)))
      => /\ call'.err = "DuplicateOption"
         /\ cmds'[n].opts = cmds[n].opts
         /\ cmds'[n].shortNameMap = cmds[n].shortNameMap

\* C15: withOptions rejects, with a duplicate-option error, any option whose
\* canonical (long-flag) name or whose short name is already registered on
\* the node; the earlier registration and its short-name lookup entry are
\* never overwritten.
C15_DuplicateOptionRejected == [][C15_WithOptionsStep]_vars


\* The nodes whose help handlers the call invoked, in order
HelpInvoked ==
  LET helps == SelectSeq(call.log, LAMBDA ev : ev.hook.t = "help")
  IN [i \in DOMAIN helps |-> helps[i].hook.n]

\* C16: every command owns its own --help / -h option and inheritance never
\* replaces it: when --help is parsed on a node N reached through any
\* sub-command chain, exactly N's help handler is invoked and no ancestor's
\* or descendant's, whether or not N or its descendants inherit options.
\* (A --help that the node rejects as a duplicate, because its accumulator
\* still holds the one of an earlier call, is not parsed.)
C16_OwnHelpHandler ==
  /\ \A n \in Nodes :
       /\ Has(cmds[n].opts, getDefName(HelpOption(n)))
       /\ Get(cmds[n].opts, getDefName(HelpOption(n))).onParse = HelpHook(n)
       /\ getFlagName(cmds[n], HelpFlags[1]) = getDefName(HelpOption(n))
  /\ call.op = "parse" =>
       /\ \A i \in DOMAIN call.log :
            /\ call.log[i].hook.t = "help"
                 => /\ call.log[i].hook = HelpHook(call.log[i].n)
                    /\ call.log[i].name = getDefName(HelpOption(call.log[i].n))
            /\ (/\ call.log[i].e = "bind" /\ call.log[i].kind = "opt"
                /\ call.log[i].name = getDefName(HelpOption(call.log[i].n)))
                 => /\ i < Len(call.log)
                    /\ call.log[i + 1].e = "onParse"
                    /\ call.log[i + 1].hook = HelpHook(call.log[i].n)
       /\ (call.tokens = <<HelpFlags[2]>> /\ call.err # "DuplicateOption")
            => HelpInvoked = <<"n1">>
       /\ (/\ call.tokens = <<Word.sub, HelpFlags[2]>> /\ call.err # "DuplicateOption"
           /\ Has(cmds["n1"].subCommands, Word.sub))
            => HelpInvoked = <<Get(cmds["n1"].subCommands, Word.sub)>>
       /\ (/\ call.tokens = <<Word.sub, Word.leaf, HelpFlags[1]>>
           /\ call.err # "DuplicateOption"
           /\ Has(cmds["n1"].subCommands, Word.sub)
           /\ Has(cmds["n2"].subCommands, Word.leaf))
            => HelpInvoked = <<"n3">>

\* C16's case: [sub, --help] invoked the help handler of sub, which inherits
\* the options of app and has received --test from it
C16_Witness ==
  /\ call.op = "parse"
  /\ call.tokens = <<Word.sub, HelpFlags[2]>>
  /\ HelpInvoked = <<"n2">>
  /\ cmds["n2"].inheritOpts.on
  /\ Has(cmds["n2"].opts, getDefName(OptTest))


\* The option is one that the command with fields c takes from a parent:
\* c inherits, the option is not --help and its long flag is not excepted
Acquires(c, option) ==
  /\ c.inheritOpts.on
  /\ option.name[2] # HelpFlags[2]
  /\ ~(c.inheritOpts.hasExcept /\ option.name[2] \in Range(c.inheritOpts.except))

\* withSubCommands(child) on parent returned; the options of child afterwards
\* are those it had, with every option of parent that it acquires put over
\* them, and no other
AttachedWith(parent, child) ==
  LET had == cmds[child].opts
      has == cmds'[child].opts
      given == cmds[parent].opts
  IN /\ \A i \in DOMAIN given :
          Acquires(cmds[child], given[i].v)
            => Has(has, given[i].k) /\ Get(has, given[i].k) = given[i].v
     /\ \A i \in DOMAIN has :
          \/ \E j \in DOMAIN given : given[j] = has[i] /\ Acquires(cmds[child], given[j].v)
          \/ Has(had, has[i].k) /\ Get(had, has[i].k) = has[i].v
     /\ \A i \in DOMAIN had : Has(has, had[i].k)
     /\ ~cmds[child].inheritOpts.on => cmds'[child] = cmds[child]

C17_Step ==
  /\ \A n \in Nodes : \A c \in Nodes \ {n} :
       (WithSubCommands(n, <<c>>) /\ call'.err = "none") => AttachedWith(n, c)
  /\ (/\ call'.op = "parse"
      /\ call'.tokens = <<Word.leaf, Word.t>>
      /\ Has(cmds["n1"].subCommands, Word.leaf)
      /\ Has(cmds["n1"].opts, getDefName(OptTest))
      /\ ~cmds["n3"].inheritOpts.on)
       => call'.err = "UnknownOption" /\ call'.final = "n3"

\* C17: when a child is attached with withSubCommands, the set of parent
\* options it acquires is exactly: none if the child was not constructed with
\* inheritOpts (a parent flag passed to it is then an unknown option);
\* otherwise every option currently on the parent except --help and except
\* those whose long flag is listed in inheritOpts.except.
C17_OptionsAcquiredOnAttach == [][C17_Step]_vars

\* C17's case: sub, which excepts --quiet, was attached to app, which has
\* --quiet and --test, and has --test only
C17_Witness ==
  /\ call.op = "withSubCommands" /\ call.node = "n1" /\ call.err = "none"
  /\ Has(cmds["n1"].subCommands, Word.sub)
  /\ cmds["n2"].inheritOpts.hasExcept
  /\ Has(cmds["n1"].opts, getDefName(OptQuiet))
  /\ Has(cmds["n1"].opts, getDefName(OptTest))
  /\ Has(cmds["n2"].opts, getDefName(OptTest))
  /\ ~Has(cmds["n2"].opts, getDefName(OptQuiet))


\* ------------------------------------------------------------------------
\* SpecTokens: the functions of TokenParser and the assignment pre-pass,
\* each applied to a list of strings; call.tokens is the list and
\* proc.result the value returned
\* ------------------------------------------------------------------------

MaxChars == 4

\* The inputs: a lower-case and an upper-case letter, a digit, '_', '-', '='
\* and '!' in every string of up to MaxChars characters, alone, and the
\* strings of up to MaxChars - 2 characters in pairs; and the empty list
InitTokens ==
  LET Strings(k) == UNION {[1..j -> {"a", "B", "1", "_", "-", "=", "!"}] : j \in 0..k}
  IN /\ cmds = Constructed(DefaultCliCommandOptions, NoInherit)
     /\ proc = IdleProc
     /\ \E tokens \in {<<>>} \cup {<<s>> : s \in Strings(MaxChars)}
                       \cup (Strings(MaxChars - 2) \X Strings(MaxChars - 2)) :
          call = [NoCall EXCEPT !.tokens = tokens]

Returned(op, value) ==
  /\ call.op = "none"
  /\ call' = [call EXCEPT !.op = op, !.count = 1]
  /\ proc' = [proc EXCEPT !.result = value]
  /\ UNCHANGED cmds

IsValidName == Len(call.tokens) = 1 /\ Returned("isValidName", Bool(isValidName(call.tokens[1])))

ToCamelCase == Returned("toCamelCase", Str(toCamelCase(call.tokens)))

SplitOptionAssignments ==
  Returned("splitOptionAssignments", List(splitOptionAssignments(call.tokens)))

NextTokens == IsValidName \/ ToCamelCase \/ SplitOptionAssignments

SpecTokens == InitTokens /\ [][NextTokens]_vars

\* ------------------------------------------------------------------------
\* Properties of the token functions
\* ------------------------------------------------------------------------

AlphaNumeric(c) == c \in Range(LowerChars) \cup Range(UpperChars) \cup Range(DigitChars)

\* s is not empty and consists of characters of the class given and of
\* dashes, each dash single and internal
DashedName(s, InClass(_)) ==
  /\ s # <<>>
  /\ \A i \in DOMAIN s : InClass(s[i]) \/ s[i] = "-"
  /\ s[1] # "-" /\ s[Len(s)] # "-"
  /\ \A i \in 1..(Len(s) - 1) : ~(s[i] = "-" /\ s[i + 1] = "-")

\* C18: isValidName(s) is true exactly when s is non-empty, consists only of
\* alphanumeric characters and dashes, and every dash is single and internal
\* (no leading, trailing or doubled dash); it is total and returns false on
\* the empty string.
C18_IsValidNameExactly ==
  call.op = "isValidName" =>
    /\ proc.result \in {Bool(TRUE), Bool(FALSE)}
    /\ proc.result = Bool(DashedName(call.tokens[1], AlphaNumeric))


\* String.prototype.toLowerCase on a word of the letters modelled
LowerCased(word) ==
  [i \in DOMAIN word |->
     IF word[i] \in Range(UpperChars)
     THEN LowerChars[CHOOSE k \in DOMAIN UpperChars : UpperChars[k] = word[i]]
     ELSE word[i]]

\* The first letter of each word of the list in upper case, the words joined
JoinCapitalized(words) ==
  Join([i \in DOMAIN words |->
          IF words[i] = <<>> THEN <<>> ELSE <<ToUpperChar(words[i][1])>> \o Tail(words[i])])

\* C19: toCamelCase(words) returns the first word converted to lower case
\* followed by every later word with its first letter capitalised, and the
\* empty string for the empty list; hence for every valid name the canonical
\* key begins with the lower-cased first word.
C19_ToCamelCaseLowersFirstWord ==
  call.op = "toCamelCase" =>
    proc.result = Str(IF call.tokens = <<>> THEN <<>>
                      ELSE LowerCased(Head(call.tokens)) \o JoinCapitalized(Tail(call.tokens)))


\* The token is flag=value with flag, the part before its first '=', an
\* option flag
Assigns(token) ==
  /\ "=" \in Range(token)
  /\ isOptionName(SubSeq(token, 1, IndexOf(token, <<"=">>) - 1))

\* The tokens in their order, each flag=value replaced by flag and value,
\* everything after the first '=', and every other token as it is
RECURSIVE Rewritten(_)
Rewritten(tokens) ==
  IF tokens = <<>> THEN <<>>
  ELSE LET token == Head(tokens)
           at == IndexOf(token, <<"=">>)
       IN (IF Assigns(token) THEN <<SubSeq(token, 1, at - 1), Drop(token, at + 1)>>
           ELSE <<token>>)
          \o Rewritten(Tail(tokens))

\* C20: the assignment pre-pass is lossless: every token of the form
\* flag=value whose part before the first '=' is a valid short or long option
\* flag is replaced by the two tokens flag and value, where value is
\* everything after that first '=' (joining the pair with '=' gives back the
\* original token); every other token is passed through unchanged, and token
\* order is preserved.
C20_PrePassIsLossless ==
  call.op = "splitOptionAssignments" =>
    proc.result = List(Rewritten(call.tokens))


\* ------------------------------------------------------------------------
\* Properties of repeated and of finished calls
\* ------------------------------------------------------------------------

\* The commands with the accumulator of every command emptied and, if
\* listsToo, every list of arguments as it was registered
Reset(cs, listsToo) ==
  [n \in Nodes |-> [cs[n] EXCEPT !.parsed = EmptyParsed,
                                 !.args = IF listsToo THEN Values(cs[n].argsMap) ELSE @]]

\* A parse of tokens without flag=value has been made: the same parse on the
\* commands it left, reset, ends on the same command with the same error
\* and the same result
ParsedAgain(listsToo) ==
  (/\ call.op = "none" /\ call'.op = "parse"
   /\ \A i \in DOMAIN call'.tokens : ~isOptionAssignment(call'.tokens[i]))
    => LET Same(again) ==
             /\ again.err = call'.err
             /\ again.node = call'.final
             /\ again.cs[again.node].parsed = cmds'[call'.final].parsed
       IN Same(parse(Reset(cmds', listsToo), call'.node, call'.tokens, TRUE))

\* C21: for every command tree and every token stream containing no option
\* assignment, calling parse() twice with the same input on the same command
\* instance, the {args, opts, extra} accumulators being reset to empty
\* between the two calls, yields structurally equal results (or the same
\* error both times).
C21_ParseTwiceSameResult == [][ParsedAgain(FALSE)]_vars


\* A step leaves the definitions of every command as they were: all its
\* fields but the accumulator and, unless listToo, the list of arguments
DefinitionsKept(listToo) ==
  \A n \in Nodes :
    [cmds'[n] EXCEPT !.parsed = cmds[n].parsed,
                     !.args = IF listToo THEN @ ELSE cmds[n].args] = cmds[n]

\* C22: parse() and process() change only bound values: after either
\* returns or throws, every node's registered argument list (names and
\* order), option mapping, short-name and negation tables, hook queue and
\* sub-command mapping are exactly what they were before the call.
C22_ParseKeepsDefinitions == [][call'.op = "parse" => DefinitionsKept(TRUE)]_vars


\* tree is the dump of command n met below the commands of path: its own
\* name, options and arguments, no sub-commands if n is on the path, else
\* the dumps of its sub-commands in their order
RECURSIVE DumpOf(_, _, _)
DumpOf(tree, n, path) ==
  /\ tree.t = "object"
  /\ Keys(tree.v) = <<"name", "opts", "args", "subCommands">>
  /\ Get(tree.v, "name") = Str(cmds[n].name)
  /\ Len(Get(tree.v, "opts").v) = Len(cmds[n].opts)
  /\ \A i \in DOMAIN cmds[n].opts :
       Get(Get(tree.v, "opts").v[i].v, "name") = List(cmds[n].opts[i].v.name)
  /\ Len(Get(tree.v, "args").v) = Len(cmds[n].argsMap)
  /\ LET subs == Get(tree.v, "subCommands").v
     IN IF n \in path THEN subs = <<>>
        ELSE /\ Len(subs) = Len(cmds[n].subCommands)
             /\ \A i \in DOMAIN subs : DumpOf(subs[i], cmds[n].subCommands[i].v, path \cup {n})

\* C23: dump() terminates on every finite command graph, including graphs in
\* which a command is directly or transitively its own sub-command, by not
\* descending into the sub-commands of a node that is already on the current
\* path; it invokes no hook, validator or handler and leaves every node's
\* parse state and definitions unchanged.
C23_DumpTerminates ==
  [][call'.op = "dump" =>
       /\ proc'.result # RangeError
       /\ DumpOf(proc'.result, call'.node, {})
       /\ cmds' = cmds
       /\ call'.log = <<>> /\ proc'.log = proc.log]_vars

\* C23's case: the dump of app, which is its own sub-command: within app's
\* dump there is app's again, without sub-commands
C23_Witness ==
  /\ call.op = "dump" /\ call.node = "n1"
  /\ \E i \in DOMAIN cmds["n1"].subCommands : cmds["n1"].subCommands[i].v = "n1"
  /\ \E i \in DOMAIN Get(proc.result.v, "subCommands").v :
       LET sub == Get(proc.result.v, "subCommands").v[i]
       IN Get(sub.v, "name") = Str(Word.app) /\ Get(sub.v, "subCommands") = List(<<>>)


\* Every option without nested arguments that a parse binds by one of its
\* flags is bound to true, and where parse returns the option holds true if
\* its flag was in the stream, false if only its --no- alias was, and else
\* its default value (a flag and the alias in one stream are the case of
\* TwiceFails).  emptyListToo: also an option declared with args: [].
FlagBindsTrue(emptyListToo) ==
  call.op = "parse" =>
    \A n \in Nodes : \A i \in DOMAIN cmds[n].opts :
      LET x == cmds[n].opts[i].v
          name == cmds[n].opts[i].k
          byFlag == {j \in DOMAIN call.log :
                       /\ call.log[j].e = "bind" /\ call.log[j].n = n
                       /\ call.log[j].kind = "opt" /\ call.log[j].name = name}
      IN (x.args = <<>> /\ (emptyListToo \/ ~x.hasArgs)) =>
           /\ \A j \in byFlag : call.log[j].value = Bool(TRUE)
           /\ (n = call.node /\ call.tokens # <<>> /\ Head(call.tokens) \in Range(x.name))
                => call.log # <<>> /\ 1 \in byFlag
           /\ (n = call.final /\ call.err = "none") =>
                /\ Has(cmds[n].parsed.opts, name)
                /\ IF Logged("bind", n, "negated", name)
                   THEN byFlag = {} => Get(cmds[n].parsed.opts, name) = Bool(FALSE)
                   ELSE Get(cmds[n].parsed.opts, name) =
                          IF byFlag # {} THEN Bool(TRUE) ELSE x.defaultValue

\* C24: an option that declares zero nested arguments (args absent or an
\* empty list) is bound to true whenever its flag appears in the stream,
\* whatever its defaultValue is; its defaultValue is bound only when the flag
\* is absent.
C24_FlagBindsTrue == FlagBindsTrue(TRUE)


\* C25: after any sequence of successful registrations (direct or through
\* inheritance), for every option stored on a node, resolving its short flag
\* through the short-name table, converting its long flag, and deriving the
\* name from the definition itself all give the same canonical name, which
\* is the key under which that option is stored and under which its value is
\* bound.
C25_OneCanonicalName ==
  \A n \in Nodes :
    /\ \A i \in DOMAIN cmds[n].opts :
         LET x == cmds[n].opts[i].v
             key == cmds[n].opts[i].k
         IN /\ getFlagName(cmds[n], x.name[1]) = key
            /\ getFlagName(cmds[n], x.name[2]) = key
            /\ getDefName(x) = key
    /\ \A i \in DOMAIN cmds[n].parsed.opts : Has(cmds[n].opts, cmds[n].parsed.opts[i].k)


\* The hooks that have been started, by their place in the queue, in the
\* order in which they were started
Started == SelectSeq(proc.log, LAMBDA ev : ev.e = "hook")

\* The assign of the hook at place j of the queue has settled and no later
\* hook has assigned the same definition since
LastAssign(j) ==
  /\ proc.log[j].e = "assign"
  /\ \A l \in DOMAIN proc.log :
       (l > j /\ proc.log[l].e = "assign" /\ proc.log[l].kind = proc.log[j].kind)
         => proc.log[l].name # proc.log[j].name

\* C26: onProcess hooks never overlap: a hook is not started until the
\* promise returned by the previous hook has settled, so when a hook awaits
\* assign(v), v is the value every later-registered hook observes in the
\* parse result; the final validator pass does not start while any awaited
\* hook is still pending.
C26_HooksNeverOverlap ==
  LET queue == cmds[proc.command].onProcessQueue
      parsed == cmds[proc.parsedNode].parsed
  IN proc.log # <<>> =>
       \* hooks are started one at a time, each at a later place of the queue
       /\ \A i, j \in DOMAIN Started : i < j => Started[i].taken < Started[j].taken
       \* a hook that awaits assign has settled before anything else is logged
       /\ \A i \in DOMAIN proc.log :
            (proc.log[i].e = "hook" /\ queue[proc.log[i].taken].onProcess.t = "assign") =>
              IF i = Len(proc.log) THEN proc.pc = "rejected"
              ELSE /\ proc.log[i + 1].e = "assign"
                   /\ proc.log[i + 1].taken = proc.log[i].taken
                   /\ proc.log[i + 1].value = queue[proc.log[i].taken].onProcess.v
       \* what a settled assign wrote is what the parse result holds when the
       \* next hook, validator or handler starts
       /\ \A j \in DOMAIN proc.log :
            (LastAssign(j) /\ proc.pc \in {"hooks", "args", "opts", "handler"}) =>
              Bound(parsed, KindType(proc.log[j].kind), proc.log[j].name) = proc.log[j].value
       \* once a validator of the final pass has run, every awaited hook of
       \* the queue has been started and has settled
       /\ (\E i \in DOMAIN proc.log : proc.log[i].e = "validate") =>
            /\ {Started[i].taken : i \in DOMAIN Started}
                 = {k \in DOMAIN queue : Awaited(queue[k], "hooks")}
            /\ Before({"hook", "assign"}, {"validate"})

\* A later-registered hook is about to start after an earlier hook's
\* assign(v) settled
C26_Witness ==
  /\ proc.pc = "hooks"
  /\ \E j \in DOMAIN proc.log :
       /\ proc.log[j].e = "assign"
       /\ proc.log[j].taken < proc.i
       /\ Bound(cmds[proc.parsedNode].parsed, KindType(proc.log[j].kind), proc.log[j].name)
            = proc.log[j].value


\* The handler has run and, before it, every definition of the invoked
\* command that has a validator was validated with the value then bound and
\* accepted; with nestedToo, so was every argument nested inside an option
ValidatorsRun(nestedToo) ==
  LET c == cmds[proc.command]
      Accepted(kind, name) ==
        \E j \in DOMAIN proc.log :
          /\ proc.log[j].e = "validate" /\ proc.log[j].kind = kind
          /\ proc.log[j].name = name /\ proc.log[j].res = "true"
  IN /\ (\E i \in DOMAIN proc.log : proc.log[i].e = "handler") =>
          /\ AllValidatorsAccepted("args")
          /\ AllValidatorsAccepted("opts")
          /\ nestedToo =>
               \A i \in DOMAIN c.opts : \A k \in DOMAIN c.opts[i].v.args :
                 c.opts[i].v.args[k].validator # "none"
                   => Accepted("arg", c.opts[i].v.args[k].name)
     /\ \A j \in DOMAIN proc.log :
          (proc.log[j].e = "validate" /\ proc.log[j].res # "true") =>
            /\ j = Len(proc.log)
            /\ proc.pc = "rejected"
            /\ proc.err = "ValidationError"

\* C27: process() calls, before the handler runs, the validator of every
\* argument and option of the invoked command that has one - including
\* arguments nested inside an option and definitions that were resolved to
\* their default - and rejects with a ValidationError naming the definition
\* whenever a validator returns anything other than true.
C27_EveryValidatorRuns == ValidatorsRun(TRUE)


\* One or two leading dashes followed by a name of alphanumeric words joined
\* by single dashes
FlagBySyntax(token) ==
  \E k \in {1, 2} :
    /\ Len(token) > k
    /\ \A i \in 1..k : token[i] = "-"
    /\ DashedName(Drop(token, k + 1), AlphaNumeric)

\* The arguments registered on node n and those nested in its options
ArgumentsOf(n) ==
  Range(Values(cmds[n].argsMap))
    \cup UNION {Range(cmds[n].opts[i].v.args) : i \in DOMAIN cmds[n].opts}

\* No value bound to a positional or nested argument is, or holds, a token
\* that IsFlag tells to be an option flag; and an argument consumed where the
\* next token is such a flag leaves the queue as it is and fails if it is
\* required and not variadic, gets its default if it is optional, and the
\* empty capture if it is variadic
FlagsNeverBound(IsFlag(_)) ==
  LET q == splitOptionAssignments(call.tokens)
      AtFlag(n, a, k) ==
        LET r == consumeArgument(n, a, Drop(q, k), "arg", <<>>)
        IN /\ r.q = Drop(q, k)
           /\ IF a.variadic THEN r.err = "none" /\ r.value = List(<<>>)
              ELSE IF a.required THEN r.err = "ExpectedButGot"
              ELSE r.err = "none" /\ r.value = DefaultOf(a)
  IN call.op = "parse" =>
       /\ \A i \in DOMAIN call.log :
            (call.log[i].e = "bind" /\ call.log[i].kind \in {"arg", "nested"}) =>
              /\ call.log[i].value.t = "string" => ~IsFlag(call.log[i].value.v)
              /\ call.log[i].value.t = "list" =>
                   \A k \in DOMAIN call.log[i].value.v : ~IsFlag(call.log[i].value.v[k])
       /\ \A n \in Nodes : \A a \in ArgumentsOf(n) : \A k \in DOMAIN q :
            IsFlag(q[k]) => AtFlag(n, a, k)

\* C28: no token that is a syntactically valid short or long option flag is
\* ever bound as an argument value or as an element of a variadic value, for
\* positional and option-nested arguments alike: an argument whose next
\* token is an option flag takes nothing (a required non-variadic one then
\* fails, an optional one gets its default, a variadic one gets the values
\* captured so far).
C28_FlagsNeverBound == FlagsNeverBound(FlagBySyntax)


\* Each binding from the token stream of an option or positional argument
\* that has an onParse hook is directly followed by one call of that hook
\* with the bound value, and the hook is called at no other time; with
\* aliasToo, a binding by the --no- alias counts as a binding of the option
OnParseAtEveryBinding(aliasToo) ==
  LET Defined(ev) == IF ev.kind = "arg" THEN Get(cmds[ev.n].argsMap, ev.name)
                     ELSE Get(cmds[ev.n].opts, ev.name)
      Same(a, b) == a.n = b.n /\ a.name = b.name /\ a.value = b.value
  IN call.op = "parse" =>
       /\ \A i \in DOMAIN call.log :
            (/\ call.log[i].e = "bind"
             /\ call.log[i].kind \in {"opt", "arg"} \cup (IF aliasToo THEN {"negated"} ELSE {})
             /\ Defined(call.log[i]).onParse.t # "none") =>
              /\ i < Len(call.log)
              /\ call.log[i + 1].e = "onParse"
              /\ call.log[i + 1].hook = Defined(call.log[i]).onParse
              /\ Same(call.log[i + 1], call.log[i])
       /\ \A i \in DOMAIN call.log :
            (call.log[i].e = "onParse" /\ call.log[i].kind \in {"opt", "arg"}) =>
              /\ i > 1
              /\ call.log[i - 1].e = "bind"
              /\ call.log[i - 1].kind = call.log[i].kind
              /\ Same(call.log[i - 1], call.log[i])

\* C29: during parse(), the onParse hook of an option or positional argument
\* is invoked exactly once each time that definition is bound from the token
\* stream (for an option: by its long flag, short flag or --no- alias),
\* immediately after its tokens are consumed and before the next token is
\* examined, with the bound value; it is never invoked for a definition that
\* only receives its default at finalization.
C29_OnParseAtEveryBinding == OnParseAtEveryBinding(TRUE)


\* The value the last binding of the log gave the definition of that name
\* and those kinds on node f, or else the value given
LastBound(f, kinds, name, otherwise) ==
  LET at == {i \in DOMAIN call.log :
               /\ call.log[i].e = "bind" /\ call.log[i].n = f
               /\ call.log[i].kind \in kinds /\ call.log[i].name = name}
  IN IF at = {} THEN otherwise
     ELSE call.log[CHOOSE i \in at : \A j \in at : j <= i].value

\* The entries are those of the definitions, one each, each with the value
\* last bound to it or else the definition's default value
EntriesOf(entries, definitions, f, kinds) ==
  /\ Range(Keys(entries)) = Range(Keys(definitions))
  /\ Cardinality(Range(Keys(entries))) = Len(entries)
  /\ \A i \in DOMAIN definitions :
       Bound([args |-> entries], "args", definitions[i].k)
         = LastBound(f, kinds, definitions[i].k, definitions[i].v.defaultValue)

\* C30: whenever parse() returns normally on a freshly constructed command
\* tree, the result has an opts entry for every option registered on the
\* node where parsing finished and an args entry for every positional
\* argument registered on it (its bound value, else its default, else
\* undefined), and no entry under any other key.
C30_ResultHasEveryDefinition ==
  (call.op = "parse" /\ call.err = "none") =>
    /\ EntriesOf(cmds[call.final].parsed.opts, cmds[call.final].opts, call.final,
                 {"opt", "negated"})
    /\ EntriesOf(cmds[call.final].parsed.args, cmds[call.final].argsMap, call.final, {"arg"})

\* A parse that returned on a command with arguments and options, of which
\* one argument was bound from the stream, another was not, and an option
\* received its default
C30_Witness ==
  /\ call.op = "parse" /\ call.err = "none"
  /\ \E i \in DOMAIN call.log : call.log[i].e = "bind" /\ call.log[i].kind = "arg"
  /\ \E i \in DOMAIN cmds[call.final].argsMap :
       ~Logged("bind", call.final, "arg", cmds[call.final].argsMap[i].k)
  /\ \E i \in DOMAIN cmds[call.final].opts :
       /\ ~Logged("bind", call.final, "opt", cmds[call.final].opts[i].k)
       /\ ~Logged("bind", call.final, "negated", cmds[call.final].opts[i].k)
       /\ cmds[call.final].opts[i].v.defaultValue # Undefined
       /\ Get(cmds[call.final].parsed.opts, cmds[call.final].opts[i].k)
            = cmds[call.final].opts[i].v.defaultValue


\* C31: for every token stream on which process() reaches the handler, the
\* command whose onProcess hooks, validators and handler are run is the same
\* command on which the recursive parser finished and whose definitions
\* produced the parse result - also when option tokens precede a sub-command
\* name or the root name is absent or repeated.
C31_HandlerOfParsedCommand ==
  (\E i \in DOMAIN proc.log : proc.log[i].e = "handler") =>
    /\ proc.command = proc.parsedNode
    /\ proc.parsedNode = call.final
    /\ proc.received = cmds[proc.command].parsed
    /\ \A i \in DOMAIN proc.log : proc.log[i].n = proc.parsedNode


\* No two hooks started in the call on a command of the set given are hooks
\* of one definition
HookedOnce(commands) ==
  \A i, j \in DOMAIN proc.log :
    (/\ i < j /\ proc.log[i].e = "hook" /\ proc.log[j].e = "hook"
     /\ proc.log[i].n \in commands /\ proc.log[i].kind = proc.log[j].kind)
      => proc.log[i].name # proc.log[j].name

\* C32: in one process() call the onProcess hook of each definition is
\* invoked at most once, also for options a sub-command inherited - whether
\* they were on the parent when the child was attached or were added to the
\* parent afterwards, one at a time or several in one withOptions call.
C32_HookAtMostOnce == HookedOnce(Nodes)


\* The commands that hold command c as a sub-command
ParentsOf(cs, c) == {m \in Nodes : c \in Range(Values(cs[m].subCommands))}

\* In a call made on another command, every option that command c holds and
\* none of its parents, before or after the call, holds is still stored on c
\* under its name, and its short flag still resolves to it; with onlyHelp,
\* this is said of c's --help option alone
OwnOptionsKept(onlyHelp) ==
  \A c \in Nodes \ {call'.node} : \A i \in DOMAIN cmds[c].opts :
    LET x == cmds[c].opts[i].v
        key == cmds[c].opts[i].k
        own == \A m \in ParentsOf(cmds, c) \cup ParentsOf(cmds', c) :
                 x \notin Range(Values(cmds[m].opts))
    IN (own /\ (onlyHelp => x = HelpOption(c))) =>
         /\ Has(cmds'[c].opts, key)
         /\ Get(cmds'[c].opts, key) = x
         /\ getFlagName(cmds'[c], x.name[1]) = key

\* C33: inheritance only adds options a child does not already define: an
\* option the child registered itself is never replaced by a parent option
\* with the same canonical name or the same short flag, neither when the
\* child is attached nor by later propagation from the parent.
C33_OwnOptionsNeverReplaced == [][OwnOptionsKept(FALSE)]_vars


\* C34: two different positional arguments registered on one node never
\* share a canonical name, so each has its own slot in the bound-value
\* mapping and its own entry in dump(): withArguments rejects an argument
\* whose canonical name equals that of an already registered argument even
\* when the raw names differ (my-arg vs myArg).
C34_ArgumentsHaveOwnNames ==
  \A n \in Nodes :
    LET queue == cmds[n].onProcessQueue
    IN \A i, j \in DOMAIN queue :
         (queue[i].kind = "arg" /\ queue[j].kind = "arg" /\ queue[i] # queue[j]) =>
           /\ getDefName(queue[i]) # getDefName(queue[j])
           /\ Get(cmds[n].argsMap, getDefName(queue[i])) = queue[i]


\* ------------------------------------------------------------------------
\* SpecLoop: parse() one iteration of its loop at a time
\* ------------------------------------------------------------------------

\* The tokens of the lists parse is given: the names of the commands, a
\* value, the empty string, flags and the terminator
LoopAlphabet ==
  {Word.app, Word.sub, Word.leaf, Word.a, Word.empty, Word.f, Word.q, Word.term}

\* Every list of at most MaxTokens of these, and two that go round the cycle
\* app -> sub -> app
LoopInputs ==
  TokenSeqs(LoopAlphabet, MaxTokens)
    \cup {<<Word.sub, Word.app, Word.sub, Word.leaf, Word.a>>,
          <<Word.app, Word.app, Word.sub, Word.sub>>}

\* The cyclic program of the process() calls and the programs of the
\* parse() calls
InitLoop ==
  /\ cmds \in {Built(CyclicTree(OptFirst(NoopOnProcess, "none"), ArgSecond(NoOnProcess, "none")),
                      {})}
              \cup {Built(ParseProgram(shape, DefaultCliCommandOptions, r1, r2, FALSE), {}) :
                      shape \in {"arguments", "options", "bare"}, r1 \in BOOLEAN,
                      r2 \in BOOLEAN}
  /\ call = NoCall
  /\ proc = IdleProc

\* parse(tokens, { raw: true }) on node n up to the loop: the queue is in
\* proc.result, the command whose loop runs in call.final
StartParse(n, tokens) ==
  /\ proc.pc = "idle"
  /\ call' = [NoCall EXCEPT !.op = "parse", !.node = n, !.tokens = tokens, !.final = n,
                            !.count = 0, !.parses = 1]
  /\ proc' = [IdleProc EXCEPT !.pc = "parsing", !.result = List(splitOptionAssignments(tokens))]
  /\ UNCHANGED cmds

\* The iterations after which the model leaves a loop that has not ended
MaxIterations == 14

\* One iteration of the loop, or the finalization once the queue is empty;
\* call.count counts them
Iterate ==
  /\ proc.pc = "parsing"
  /\ call.count < MaxIterations
  /\ LET Iterated(s) ==
           /\ cmds' = s.cs
           /\ call' = [call EXCEPT !.final = s.node, !.log = s.log, !.err = s.err,
                                   !.count = @ + 1]
           /\ proc' = [proc EXCEPT !.result = List(s.q),
                                   !.pc = IF ~s.done THEN "parsing"
                                          ELSE IF s.err = "none" THEN "parsed"
                                          ELSE "rejected"]
     IN Iterated(parseIteration(cmds, call.final, proc.result.v, call.log))

NextLoop ==
  \/ \E n \in Nodes, tokens \in LoopInputs : StartParse(n, tokens)
  \/ Iterate

SpecLoop == InitLoop /\ [][NextLoop]_vars

\* What is left for the loop to do: the tokens of the queue, then whether
\* the head of the queue is the name of a sub-command to descend into, then
\* the arguments the command still has to consume
Rank(cs, n, q) ==
  LET most == CHOOSE k \in {Len(cs[m].args) : m \in Nodes} :
                \A m \in Nodes : Len(cs[m].args) <= k
      descent == IF q # <<>> /\ q[1] # cs[n].name /\ Has(cs[n].subCommands, q[1])
                 THEN 1 ELSE 0
  IN Len(q) * 2 * (most + 1) + descent * (most + 1) + Len(cs[n].args)

\* An iteration after which the loop goes on has removed a token from the
\* queue, or an argument from those the command has to consume, or has
\* descended into the sub-command named by the head of the queue, which is
\* then that command's own name; what is left to do has become less, and
\* the loop is not one that the model has to leave
LoopProgress ==
  (proc.pc = "parsing" /\ proc'.pc = "parsing") =>
    /\ Rank(cmds', call'.final, proc'.result.v) < Rank(cmds, call.final, proc.result.v)
    /\ \/ Len(proc'.result.v) < Len(proc.result.v)
       \/ /\ call'.final = call.final
          /\ Len(cmds'[call.final].args) < Len(cmds[call.final].args)
       \/ /\ call'.final # call.final
          /\ proc'.result.v # <<>>
          /\ proc'.result.v[1] = cmds[call'.final].name
    /\ call'.count < MaxIterations

\* C35: parse() terminates on every finite token list and every command
\* graph, cyclic ones included: each iteration of the main loop either
\* removes at least one token from the queue, removes one pending argument
\* definition, descends into a sub-command that then removes its own name
\* from the queue, or raises an error.
C35_ParseTerminates == [][LoopProgress]_vars

\* A parse that went round the cycle app -> sub -> app -> sub -> leaf and
\* returned
C35_Witness ==
  /\ proc.pc = "parsed"
  /\ call.tokens = <<Word.sub, Word.app, Word.sub, Word.leaf, Word.a>>
  /\ call.node = "n1"
  /\ call.final = "n3"
  /\ Has(cmds["n1"].subCommands, Word.sub)
  /\ Has(cmds["n2"].subCommands, Word.app)

\* The sub-command graph below the commands of S has a cycle
Cyclic(S) == \E m \in Reachable(S) : m \in Reachable(Range(Values(cmds[m].subCommands)))

HandlerCheck(cyclicToo) ==
  (call'.count # call.count /\ (cyclicToo \/ ~Cyclic({call'.node}))) =>
    LET e == checkForMissingCommandHandlers(cmds, call'.node, {})
        lacking == \E m \in Reachable({call'.node}) : ~cmds[m].handler
    IN /\ e \in {"none", "NoCommandHandler"}
       /\ (e = "NoCommandHandler") <=> lacking
       /\ e # "none" => (proc'.pc = "rejected" /\ proc'.err = e)

\* C36: the missing-handler check that opens process() terminates on every
\* sub-command graph, cyclic ones included, and reports a no-handler error
\* exactly when a command reachable from the invoked one has no handler.
C36_HandlerCheckTerminates == [][HandlerCheck(TRUE)]_vars

\* ------------------------------------------------------------------------
\* SpecSettle: the process pipeline when every awaited promise settles
\* ------------------------------------------------------------------------

\* An awaited hook or validator settles and the continuation of process()
\* runs: the step that is enabled is eventually taken
SettleOptions ==
  {OptFirst(AssignOnProcess(Assigned), v) : v \in {"none", "rejectNumbers"}}

SettleArguments ==
  {ArgSecond(AssignOnProcess(Assigned), v) : v \in {"none", "onlyNumbers"}}

SettleInputs ==
  {<<>>, <<Word.sub, Word.hi>>, <<Word.app, Word.sub, Word.leaf, Word.hi>>}

InitSettle ==
  /\ \E shape \in {"flat", "inherit", "cyclic"}, a \in SettleOptions,
        b \in SettleArguments, H \in {Nodes, Nodes \ {"n3"}} :
       cmds = Built(ProcessProgram(shape, a, b), H)
  /\ call = NoCall
  /\ proc = IdleProc

NextSettle ==
  \/ \E n \in Nodes, tokens \in SettleInputs : Process(n, tokens)
  \/ HookStep
  \/ ValidatorStep
  \/ HandlerStep

SpecSettle ==
  /\ InitSettle /\ [][NextSettle]_vars
  /\ WF_vars(HookStep) /\ WF_vars(ValidatorStep) /\ WF_vars(HandlerStep)

HandlerInvoked == \E i \in DOMAIN proc.log : proc.log[i].e = "handler"

Invoked == call.op = "process" /\ ~Cyclic({call.node})

Settled == proc.pc = "rejected" \/ HandlerInvoked

\* After an exception nothing more is run for the invocation
AbortsPipeline ==
  (proc.err # "none" /\ call'.count = call.count) => proc'.log = proc.log

\* The handler is invoked only after every awaited hook of the queue settled
HooksSettledFirst ==
  \A h \in DOMAIN proc.log :
    proc.log[h].e = "handler" =>
      \A i \in DOMAIN cmds[proc.command].onProcessQueue :
        Awaited(cmds[proc.command].onProcessQueue[i], "hooks") =>
          \E j \in 1..(h - 1) : proc.log[j].e = "hook" /\ proc.log[j].taken = i

\* C37: when every awaited hook and validator settles, a process() call on
\* an acyclic command tree eventually invokes the handler or rejects; after
\* a hook or validator threw, no later hook, validator or handler is run for
\* the invocation; and the handler is not invoked while a hook of the queue
\* has not settled.
C37_PipelineSettlesOrAborts ==
  /\ Invoked ~> Settled
  /\ [][AbortsPipeline]_vars
  /\ [](proc.pc = "hooks" => ~HandlerInvoked)
  /\ []HooksSettledFirst

C37_Witness ==
  /\ Invoked
  /\ proc.pc = "done"
  /\ HandlerInvoked
  /\ \E i \in DOMAIN proc.log : proc.log[i].e = "assign"
  /\ \E i \in DOMAIN proc.log : proc.log[i].e = "validate"

=============================================================================
